---- MODULE Spec2Model ----
(***************************************************************************)
(* Verification model of ic-stable-memory-allocator:                       *)
(*   - SBTreeMap (src/src/collections/btree_map/mod.rs), an order-B B-tree  *)
(*     whose nodes hold keys, values and children in SVec vectors;          *)
(*   - the MemContext allocator (src/src/stable_memory_allocator.rs);       *)
(*   - the MemBox allocator (src/src/mem/allocator.rs).                     *)
(* Indices are 0-based as in the Rust source; TLA+ sequences are 1-based,   *)
(* so the vector helpers translate.                                         *)
(***************************************************************************)
EXTENDS Integers, Sequences, FiniteSets, TLC

\* ------------------------------------------------------------------------
\* Program constants of the B-tree (mod.rs:6-8)
\* ------------------------------------------------------------------------
B == 6
CAPACITY == 2 * B - 1
MIN_LEN_AFTER_SPLIT == B - 1

\* ------------------------------------------------------------------------
\* Bounds of the B-tree exploration
\* ------------------------------------------------------------------------
\* number of keys the bulk-load phase inserts at most
MaxLoad == 80
\* number of freely chosen insert/remove calls after the load phase
MaxFreeOps == 2
\* largest key written into the InternalBTreeNode under test
MaxNodeKey == 12

\* Bind(x, F) is F(x) with x evaluated once: the statements of a function
\* run one after the other, each on the result of the one before
Bind(x, F(_)) == CHOOSE r \in {F(v) : v \in {x}} : TRUE

\* Option<V>
None == [some |-> FALSE, v |-> 0]
Some(x) == [some |-> TRUE, v |-> x]

\* ------------------------------------------------------------------------
\* SVec<T>: a growable vector (collections::vec, not part of src/); modelled
\* with the usual Vec semantics of each method the tree calls.
\* ------------------------------------------------------------------------
VecInsert(s, idx, x) == SubSeq(s, 1, idx) \o <<x>> \o SubSeq(s, idx + 1, Len(s))
VecRemove(s, idx) == SubSeq(s, 1, idx) \o SubSeq(s, idx + 2, Len(s))
VecAt(s, idx) == s[idx + 1]
VecReplace(s, idx, x) == [s EXCEPT ![idx + 1] = x]
VecPush(s, x) == Append(s, x)
VecPop(s) == SubSeq(s, 1, Len(s) - 1)
VecLast(s) == s[Len(s)]
VecExtendFrom(s, t) == s \o t

\* binary_search_by(|k| k.cmp(key)): Ok(idx) / Err(insertion point)
RECURSIVE BinSearchLoop(_, _, _, _)
BinSearchLoop(s, key, left, right) ==
    IF left >= right THEN [found |-> FALSE, idx |-> left]
    ELSE LET mid == left + ((right - left) \div 2)
             k == VecAt(s, mid)
         IN IF k < key THEN BinSearchLoop(s, key, mid + 1, right)
            ELSE IF k > key THEN BinSearchLoop(s, key, left, mid)
            ELSE [found |-> TRUE, idx |-> mid]

BinarySearch(s, key) == BinSearchLoop(s, key, 0, Len(s))

\* ------------------------------------------------------------------------
\* BTreeNode (mod.rs:437-482)
\* ------------------------------------------------------------------------
BTreeNodeNew(is_leaf, is_root) ==
    [is_leaf |-> is_leaf, is_root |-> is_root,
     keys |-> <<>>, values |-> <<>>, children |-> <<>>]

\* split_child with the new sibling always created as a leaf
SplitChildSiblingLeaf(node, idx) ==
    LET child == VecAt(node.children, idx)
        new_child == [BTreeNodeNew(TRUE, FALSE) EXCEPT
                        !.keys = SubSeq(child.keys, B + 1, B + MIN_LEN_AFTER_SPLIT),
                        !.values = SubSeq(child.values, B + 1, B + MIN_LEN_AFTER_SPLIT),
                        !.children = IF child.is_leaf THEN <<>>
                                     ELSE SubSeq(child.children, B + 1, B + B)]
        child2 == [child EXCEPT
                     !.keys = SubSeq(@, 1, MIN_LEN_AFTER_SPLIT),
                     !.values = SubSeq(@, 1, MIN_LEN_AFTER_SPLIT),
                     !.children = IF child.is_leaf THEN @ ELSE SubSeq(@, 1, B)]
    IN [node EXCEPT
          !.keys = VecInsert(@, idx, VecAt(child.keys, MIN_LEN_AFTER_SPLIT)),
          !.values = VecInsert(@, idx, VecAt(child.values, MIN_LEN_AFTER_SPLIT)),
          !.children = VecInsert(VecReplace(@, idx, child2), idx + 1, new_child)]

\* split_child that promotes the key at index B: the original keeps B keys
\* and the sibling receives B - 2
SplitChildMedianAtB(node, idx) ==
    LET child == VecAt(node.children, idx)
        child2 == [child EXCEPT
                     !.keys = SubSeq(@, 1, B),
                     !.values = SubSeq(@, 1, B),
                     !.children = IF child.is_leaf THEN @ ELSE SubSeq(@, 1, B)]
        new_child == [BTreeNodeNew(child.is_leaf, FALSE) EXCEPT
                        !.keys = SubSeq(child.keys, B + 2, Len(child.keys)),
                        !.values = SubSeq(child.values, B + 2, Len(child.values)),
                        !.children = IF child.is_leaf THEN <<>>
                                     ELSE SubSeq(child.children, B + 1, B + B)]
    IN [node EXCEPT
          !.keys = VecInsert(@, idx, VecAt(child.keys, B)),
          !.values = VecInsert(@, idx, VecAt(child.values, B)),
          !.children = VecInsert(VecReplace(@, idx, child2), idx + 1, new_child)]

\* split_child (mod.rs:146-169)
SplitChild(node, idx) ==
    LET child == VecAt(node.children, idx)
        \* the loop removes index B MIN_LEN_AFTER_SPLIT times and pushes each
        movedKeys == SubSeq(child.keys, B + 1, B + MIN_LEN_AFTER_SPLIT)
        movedVals == SubSeq(child.values, B + 1, B + MIN_LEN_AFTER_SPLIT)
        keys1 == SubSeq(child.keys, 1, B) \o
                 SubSeq(child.keys, B + MIN_LEN_AFTER_SPLIT + 1, Len(child.keys))
        vals1 == SubSeq(child.values, 1, B) \o
                 SubSeq(child.values, B + MIN_LEN_AFTER_SPLIT + 1, Len(child.values))
        medianK == VecAt(keys1, MIN_LEN_AFTER_SPLIT)
        medianV == VecAt(vals1, MIN_LEN_AFTER_SPLIT)
        keys2 == VecRemove(keys1, MIN_LEN_AFTER_SPLIT)
        vals2 == VecRemove(vals1, MIN_LEN_AFTER_SPLIT)
        movedCh == IF child.is_leaf THEN <<>>
                   ELSE SubSeq(child.children, B + 1, B + B)
        ch2 == IF child.is_leaf THEN child.children
               ELSE SubSeq(child.children, 1, B) \o
                    SubSeq(child.children, B + B + 1, Len(child.children))
        child2 == [child EXCEPT !.keys = keys2, !.values = vals2, !.children = ch2]
        new_child == [BTreeNodeNew(child.is_leaf, FALSE) EXCEPT
                        !.keys = movedKeys, !.values = movedVals,
                        !.children = movedCh]
    IN [node EXCEPT
          !.keys = VecInsert(@, idx, medianK),
          !.values = VecInsert(@, idx, medianV),
          !.children = VecInsert(VecReplace(@, idx, child2), idx + 1, new_child)]

\* insert_non_full (mod.rs:117-144): result [node, res, entered, splits];
\* entered lists the children the recursion entered: the key count of the
\* child at the moment of the call, whether it came out of a split and, if
\* so, the promoted median and the half that was entered; splits lists the
\* split_child calls made: the node before, the index and the node after
RECURSIVE InsertNonFull(_, _, _)
InsertNonFull(node, key, value) ==
    LET bs == BinarySearch(node.keys, key) IN
    IF bs.found
    THEN [node |-> [node EXCEPT !.values = VecReplace(@, bs.idx, value)],
          res |-> Some(VecAt(node.values, bs.idx)), entered |-> <<>>,
          splits |-> <<>>]
    ELSE IF node.is_leaf
    THEN [node |-> [node EXCEPT !.keys = VecInsert(@, bs.idx, key),
                                !.values = VecInsert(@, bs.idx, value)],
          res |-> None, entered |-> <<>>, splits |-> <<>>]
    ELSE LET full == Len(VecAt(node.children, bs.idx).keys) = CAPACITY IN
         Bind(IF full THEN SplitChild(node, bs.idx) ELSE node, LAMBDA node1 :
         LET idx == IF full /\ key > VecAt(node1.keys, bs.idx)
                    THEN bs.idx + 1 ELSE bs.idx IN
         Bind(InsertNonFull(VecAt(node1.children, idx), key, value), LAMBDA r :
            [node |-> [node1 EXCEPT !.children = VecReplace(@, idx, r.node)],
             res |-> r.res,
             entered |-> <<[len |-> Len(VecAt(node1.children, idx).keys),
                            split |-> full,
                            median |-> IF full THEN VecAt(node1.keys, bs.idx) ELSE 0,
                            right |-> idx = bs.idx + 1]>> \o r.entered,
             splits |-> (IF full
                         THEN <<[node |-> node, idx |-> bs.idx, after |-> node1]>>
                         ELSE <<>>) \o r.splits]))

\* insert that counts a key whose value it replaced as a new key
MapInsertCountsReplaced(map, key, value) ==
    LET temp == [BTreeNodeNew(FALSE, FALSE) EXCEPT !.is_root = TRUE]
        old_root == [map.root EXCEPT !.is_root = FALSE]
        root1 == [temp EXCEPT !.children = VecInsert(@, 0, old_root)]
        full == Len(map.root.keys) = CAPACITY
    IN Bind(IF full THEN SplitChild(root1, 0) ELSE map.root, LAMBDA root0 :
       Bind(InsertNonFull(root0, key, value), LAMBDA r :
       [root |-> r.node,
        len |-> map.len + 1,
        res |-> r.res, rootLen |-> Len(root0.keys), entered |-> r.entered,
        splits |-> (IF full THEN <<[node |-> root1, idx |-> 0, after |-> root0]>>
                    ELSE <<>>) \o r.splits]))

\* insert (mod.rs:38-61) on the map [root, len]; rootLen is the key count of
\* the root at the moment insert_non_full is called on it
MapInsert(map, key, value) ==
    LET temp == [BTreeNodeNew(FALSE, FALSE) EXCEPT !.is_root = TRUE]
        old_root == [map.root EXCEPT !.is_root = FALSE]
        root1 == [temp EXCEPT !.children = VecInsert(@, 0, old_root)]
        full == Len(map.root.keys) = CAPACITY
    IN Bind(IF full THEN SplitChild(root1, 0) ELSE map.root, LAMBDA root0 :
       Bind(InsertNonFull(root0, key, value), LAMBDA r :
       [root |-> r.node,
        len |-> IF r.res.some THEN map.len ELSE map.len + 1,
        res |-> r.res, rootLen |-> Len(root0.keys), entered |-> r.entered,
        splits |-> (IF full THEN <<[node |-> root1, idx |-> 0, after |-> root0]>>
                    ELSE <<>>) \o r.splits]))

\* delete_merge (mod.rs:319-362)
DeleteMerge(node, i, j) ==
    LET child == VecAt(node.children, i) IN
    IF j > i
    THEN LET child_right_sibling == VecAt(node.children, j)
             merged == [child EXCEPT
                 !.keys = VecExtendFrom(VecPush(@, VecAt(node.keys, i)),
                                        child_right_sibling.keys),
                 !.values = VecExtendFrom(VecPush(@, VecAt(node.values, i)),
                                          child_right_sibling.values),
                 !.children = VecExtendFrom(@, child_right_sibling.children)]
             node1 == [node EXCEPT !.children = VecRemove(@, j),
                                   !.keys = VecRemove(@, i),
                                   !.values = VecRemove(@, i)]
         IN IF node1.is_root /\ node1.keys = <<>>
            THEN [merged EXCEPT !.is_root = TRUE]
            ELSE [node1 EXCEPT !.children = VecReplace(@, i, merged)]
    ELSE LET child_left_sibling == VecAt(node.children, j)
             merged == [child_left_sibling EXCEPT
                 !.keys = VecExtendFrom(VecPush(@, VecAt(node.keys, j)), child.keys),
                 !.values = VecExtendFrom(VecPush(@, VecAt(node.values, j)),
                                          child.values),
                 !.children = VecExtendFrom(@, child.children)]
             node1 == [node EXCEPT !.keys = VecRemove(@, j),
                                   !.values = VecRemove(@, j),
                                   !.children = VecRemove(@, i)]
         IN IF node1.is_root /\ node1.keys = <<>>
            THEN [merged EXCEPT !.is_root = TRUE]
            ELSE [node1 EXCEPT !.children = VecReplace(@, j, merged)]

\* delete_sibling that leaves the separator of the parent as it was
DeleteSiblingKeepsSeparator(node, i, j) ==
    LET child == VecAt(node.children, i) IN
    IF j > i
    THEN LET sib == VecAt(node.children, j)
             moves == sib.children # <<>>
             child1 == [child EXCEPT
                 !.keys = VecPush(@, VecAt(node.keys, i)),
                 !.values = VecPush(@, VecAt(node.values, i)),
                 !.children = IF moves THEN VecPush(@, VecAt(sib.children, 0))
                              ELSE @]
             sib1 == [sib EXCEPT
                 !.keys = VecRemove(@, 0),
                 !.values = VecRemove(@, 0),
                 !.children = IF moves THEN VecRemove(@, 0) ELSE @]
         IN [node EXCEPT
               !.children = VecReplace(VecReplace(@, j, sib1), i, child1)]
    ELSE LET sib == VecAt(node.children, j)
             moves == sib.children # <<>>
             child1 == [child EXCEPT
                 !.keys = VecInsert(@, 0, VecAt(node.keys, i - 1)),
                 !.values = VecInsert(@, 0, VecAt(node.values, i - 1)),
                 !.children = IF moves THEN VecInsert(@, 0, VecLast(sib.children))
                              ELSE @]
             sib1 == [sib EXCEPT
                 !.keys = VecPop(@),
                 !.values = VecPop(@),
                 !.children = IF moves THEN VecPop(@) ELSE @]
         IN [node EXCEPT
               !.children = VecReplace(VecReplace(@, j, sib1), i, child1)]

\* delete_sibling (mod.rs:364-405)
DeleteSibling(node, i, j) ==
    LET child == VecAt(node.children, i) IN
    IF j > i
    THEN LET sib == VecAt(node.children, j)
             moves == sib.children # <<>>
             child1 == [child EXCEPT
                 !.keys = VecPush(@, VecAt(node.keys, i)),
                 !.values = VecPush(@, VecAt(node.values, i)),
                 !.children = IF moves THEN VecPush(@, VecAt(sib.children, 0))
                              ELSE @]
             sib1 == [sib EXCEPT
                 !.keys = VecRemove(@, 0),
                 !.values = VecRemove(@, 0),
                 !.children = IF moves THEN VecRemove(@, 0) ELSE @]
         IN [node EXCEPT
               !.keys = VecInsert(VecRemove(@, i), i, VecAt(sib.keys, 0)),
               !.values = VecInsert(VecRemove(@, i), i, VecAt(sib.values, 0)),
               !.children = VecReplace(VecReplace(@, j, sib1), i, child1)]
    ELSE LET sib == VecAt(node.children, j)
             moves == sib.children # <<>>
             child1 == [child EXCEPT
                 !.keys = VecInsert(@, 0, VecAt(node.keys, i - 1)),
                 !.values = VecInsert(@, 0, VecAt(node.values, i - 1)),
                 !.children = IF moves THEN VecInsert(@, 0, VecLast(sib.children))
                              ELSE @]
             sib1 == [sib EXCEPT
                 !.keys = VecPop(@),
                 !.values = VecPop(@),
                 !.children = IF moves THEN VecPop(@) ELSE @]
         IN [node EXCEPT
               !.keys = VecInsert(VecRemove(@, i - 1), i - 1, VecLast(sib.keys)),
               !.values = VecInsert(VecRemove(@, i - 1), i - 1, VecLast(sib.values)),
               !.children = VecReplace(VecReplace(@, j, sib1), i, child1)]

\* The results of the delete operators carry, next to what the code
\* returns, `entered`: the key counts of the nodes the recursion entered
\* below the node it was called on, each taken at the moment of the call,
\* and `sibs`: the calls of delete_sibling in the order they were made, each
\* with the node it was called on, its arguments and the node it left.
SibCall(node, i, j, after) == <<[node |-> node, i |-> i, j |-> j, after |-> after]>>

\* delete_predecessor (mod.rs:270-293): result [node, k, v, entered, sibs]
RECURSIVE DeletePredecessor(_)
DeletePredecessor(child) ==
    IF child.is_leaf
    THEN [node |-> [child EXCEPT !.keys = VecPop(@), !.values = VecPop(@)],
          k |-> VecLast(child.keys), v |-> VecLast(child.values),
          entered |-> <<>>, sibs |-> <<>>]
    ELSE LET n == Len(child.keys) - 1
             grand_child == VecAt(child.children, n)
         IN Bind(IF Len(grand_child.keys) >= B
                 THEN DeleteSibling(child, n + 1, n)
                 ELSE DeleteMerge(child, n + 1, n), LAMBDA child1 :
            Bind(DeletePredecessor(VecAt(child1.children, n)), LAMBDA r :
            [node |-> [child1 EXCEPT !.children = VecReplace(@, n, r.node)],
             k |-> r.k, v |-> r.v,
             entered |-> <<Len(VecAt(child1.children, n).keys)>> \o r.entered,
             sibs |-> (IF Len(grand_child.keys) >= B
                       THEN SibCall(child, n + 1, n, child1) ELSE <<>>)
                      \o r.sibs]))

\* delete_successor (mod.rs:295-317): result [node, k, v, entered, sibs]
RECURSIVE DeleteSuccessor(_)
DeleteSuccessor(child) ==
    IF child.is_leaf
    THEN [node |-> [child EXCEPT !.keys = VecRemove(@, 0), !.values = VecRemove(@, 0)],
          k |-> VecAt(child.keys, 0), v |-> VecAt(child.values, 0),
          entered |-> <<>>, sibs |-> <<>>]
    ELSE LET grand_child == VecAt(child.children, 0)
         IN Bind(IF Len(grand_child.keys) >= B
                 THEN DeleteSibling(child, 0, 1)
                 ELSE DeleteMerge(child, 0, 1), LAMBDA child1 :
            Bind(DeleteSuccessor(VecAt(child1.children, 0)), LAMBDA r :
            [node |-> [child1 EXCEPT !.children = VecReplace(@, 0, r.node)],
             k |-> r.k, v |-> r.v,
             entered |-> <<Len(VecAt(child1.children, 0).keys)>> \o r.entered,
             sibs |-> (IF Len(grand_child.keys) >= B
                       THEN SibCall(child, 0, 1, child1) ELSE <<>>)
                      \o r.sibs]))

RECURSIVE Delete(_, _)
RECURSIVE DeleteInternalNode(_, _, _)
RECURSIVE InOrder(_)

\* no key was replaced by a predecessor or successor
NoSwap == [case |-> "none", k |-> 0, sub |-> <<>>, rest |-> <<>>]

\* delete_internal_node (mod.rs:244-268): result [node, res, entered, swap,
\* sibs];
\* swap tells which neighbour gave the replacement key k, with the in-order
\* keys of that child's subtree before (sub) and after (rest) the extraction
DeleteInternalNode(node, key, idx) ==
    LET left_child == VecAt(node.children, idx)
        right_child == VecAt(node.children, idx + 1)
    IN IF Len(left_child.keys) >= B
       THEN Bind(DeletePredecessor(left_child), LAMBDA p :
               [node |-> [node EXCEPT
                            !.values = VecReplace(@, idx, p.v),
                            !.keys = VecReplace(@, idx, p.k),
                            !.children = VecReplace(@, idx, p.node)],
                res |-> Some(VecAt(node.values, idx)),
                entered |-> <<Len(left_child.keys)>> \o p.entered,
                sibs |-> p.sibs,
                swap |-> [case |-> "predecessor", k |-> p.k,
                          sub |-> InOrder(left_child), rest |-> InOrder(p.node)]])
       ELSE IF Len(right_child.keys) >= B
       THEN Bind(DeleteSuccessor(right_child), LAMBDA p :
               [node |-> [node EXCEPT
                            !.values = VecReplace(@, idx, p.v),
                            !.keys = VecReplace(@, idx, p.k),
                            !.children = VecReplace(@, idx + 1, p.node)],
                res |-> Some(VecAt(node.values, idx)),
                entered |-> <<Len(right_child.keys)>> \o p.entered,
                sibs |-> p.sibs,
                swap |-> [case |-> "successor", k |-> p.k,
                          sub |-> InOrder(right_child), rest |-> InOrder(p.node)]])
       ELSE Delete(DeleteMerge(node, idx, idx + 1), key)

\* the rebalancing step of _delete before it enters children[idx] (mod.rs:198-228):
\* the node after the borrow or merge, whether a merge was done, and the
\* index of the sibling a borrow took from
DeleteRebalance(node, idx) ==
    LET nch == Len(node.children)
        lenAt(c) == Len(VecAt(node.children, c).keys)
    IN IF idx # 0 /\ idx + 1 < nch
       THEN IF lenAt(idx - 1) >= B
            THEN [node |-> DeleteSibling(node, idx, idx - 1), merged |-> FALSE,
                  donor |-> <<idx - 1>>]
            ELSE IF lenAt(idx + 1) >= B
            THEN [node |-> DeleteSibling(node, idx, idx + 1), merged |-> FALSE,
                  donor |-> <<idx + 1>>]
            ELSE [node |-> DeleteMerge(node, idx, idx + 1), merged |-> TRUE,
                  donor |-> <<>>]
       ELSE IF idx = 0
       THEN IF lenAt(idx + 1) >= B
            THEN [node |-> DeleteSibling(node, idx, idx + 1), merged |-> FALSE,
                  donor |-> <<idx + 1>>]
            ELSE [node |-> DeleteMerge(node, idx, idx + 1), merged |-> TRUE,
                  donor |-> <<>>]
       ELSE IF idx + 1 = nch
       THEN IF lenAt(idx - 1) >= B
            THEN [node |-> DeleteSibling(node, idx, idx - 1), merged |-> FALSE,
                  donor |-> <<idx - 1>>]
            ELSE [node |-> DeleteMerge(node, idx, idx - 1), merged |-> TRUE,
                  donor |-> <<>>]
       ELSE [node |-> node, merged |-> FALSE, donor |-> <<>>]

\* _delete (mod.rs:171-242): result [node, res, entered, swap, sibs]
Delete(node, key) ==
    LET bs == BinarySearch(node.keys, key) IN
    IF bs.found
    THEN IF node.is_leaf
         THEN [node |-> [node EXCEPT !.keys = VecRemove(@, bs.idx),
                                     !.values = VecRemove(@, bs.idx)],
               res |-> Some(VecAt(node.values, bs.idx)),
               entered |-> <<>>, swap |-> NoSwap, sibs |-> <<>>]
         ELSE DeleteInternalNode(node, key, bs.idx)
    ELSE IF node.is_leaf
    THEN [node |-> node, res |-> None, entered |-> <<>>, swap |-> NoSwap,
          sibs |-> <<>>]
    ELSE IF Len(VecAt(node.children, bs.idx).keys) >= B
    THEN Bind(Delete(VecAt(node.children, bs.idx), key), LAMBDA r :
            [node |-> [node EXCEPT !.children = VecReplace(@, bs.idx, r.node)],
             res |-> r.res,
             entered |-> <<Len(VecAt(node.children, bs.idx).keys)>> \o r.entered,
             swap |-> r.swap, sibs |-> r.sibs])
    ELSE Bind(DeleteRebalance(node, bs.idx), LAMBDA rb :
         IF rb.merged
         THEN Delete(rb.node, key)
         ELSE Bind(Delete(VecAt(rb.node.children, bs.idx), key), LAMBDA r :
                 [node |-> [rb.node EXCEPT !.children = VecReplace(@, bs.idx, r.node)],
                  res |-> r.res,
                  entered |-> <<Len(VecAt(rb.node.children, bs.idx).keys)>>
                              \o r.entered,
                  swap |-> r.swap,
                  sibs |-> (IF rb.donor # <<>>
                            THEN SibCall(node, bs.idx, rb.donor[1], rb.node)
                            ELSE <<>>) \o r.sibs]))

\* remove (mod.rs:63-68)
MapRemove(map, key) ==
    Bind(Delete(map.root, key), LAMBDA r :
       [root |-> r.node,
        len |-> IF r.res.some THEN map.len - 1 ELSE map.len,
        res |-> r.res, entered |-> r.entered, swap |-> r.swap, sibs |-> r.sibs])

\* _drop (mod.rs:78-84): the nodes whose storage is released, in the order of
\* release; a node is named by its path of child indices from the root.
\* BTreeNode::drop (mod.rs:465-471) releases the keys, values and children
\* vectors of one node.
RECURSIVE DropNode(_, _)
RECURSIVE DropChildren(_, _, _)
DropChildren(node, path, i) ==
    IF i < Len(node.children)
    THEN DropNode(VecAt(node.children, i), Append(path, i))
         \o DropChildren(node, path, i + 1)
    ELSE <<>>
DropNode(node, path) == DropChildren(node, path, 0) \o <<path>>

\* drop (mod.rs:70-76): pops the children of the root, last first, and
\* releases each subtree
RECURSIVE DropPop(_)
DropPop(node) ==
    IF node.children = <<>> THEN <<>>
    ELSE DropNode(VecLast(node.children), <<Len(node.children) - 1>>)
         \o DropPop([node EXCEPT !.children = VecPop(@)])
MapDrop(map) == DropPop(map.root)

\* len, is_empty (mod.rs:23-29)
MapLen(map) == map.len
MapIsEmpty(map) == map.len = 0

\* _get (mod.rs:90-98)
RECURSIVE Get(_, _)
Get(node, key) ==
    LET bs == BinarySearch(node.keys, key) IN
    IF bs.found THEN Some(VecAt(node.values, bs.idx))
    ELSE IF bs.idx < Len(node.children)
    THEN Get(VecAt(node.children, bs.idx), key)
    ELSE None

\* _contains_key (mod.rs:104-115)
RECURSIVE ContainsKey(_, _)
ContainsKey(node, key) ==
    LET bs == BinarySearch(node.keys, key) IN
    IF bs.found THEN TRUE
    ELSE IF bs.idx < Len(node.children)
    THEN ContainsKey(VecAt(node.children, bs.idx), key)
    ELSE FALSE

\* btree_to_sorted_vec (mod.rs:567-588): the in-order key sequence
RECURSIVE InOrderFrom(_, _)
InOrderFrom(node, i) ==
    IF i < Len(node.keys)
    THEN (IF i < Len(node.children) THEN InOrder(VecAt(node.children, i)) ELSE <<>>)
         \o <<VecAt(node.keys, i)>> \o InOrderFrom(node, i + 1)
    ELSE IF i < Len(node.children) THEN InOrder(VecAt(node.children, i)) ELSE <<>>
InOrder(node) == InOrderFrom(node, 0)

\* ------------------------------------------------------------------------
\* Stable memory shared by the two allocators: a number of pages and the
\* blocks laid out in them.  mem maps the offset of a block to its header
\* [size, allocated, prev_free, next_free] and to data, the content of its
\* payload: 0 for bytes never written since the page was grown, a marker
\* m > 0 for the byte pattern a caller wrote, Clobbered for a payload
\* that holds free-list link words.
\* ------------------------------------------------------------------------
PAGE_SIZE_BYTES == 65536
Clobbered == -1
NoBlock == -1

\* stable memory refuses to grow beyond MaxPages pages
MaxPages == 3
\* number of calls on the MemContext allocator in one behaviour
MaxAllocOps == 6
\* number of calls on the MemBox allocator in one behaviour
MaxMbAllocOps == 5


MemPut(m, off, blk) == [o \in DOMAIN m \cup {off} |-> IF o = off THEN blk ELSE m[o]]
MemDel(m, off) == [o \in DOMAIN m \ {off} |-> m[o]]

RECURSIVE FloorLog2(_)
FloorLog2(n) == IF n <= 1 THEN 0 ELSE 1 + FloorLog2(n \div 2)

\* ------------------------------------------------------------------------
\* stable_memory_allocator.rs: StableMemoryAllocator<T: MemContext>
\* A state st is [mem, classes, pages, panicked, offset, words]; classes is
\* the field segregation_size_classes, offset the field offset, panicked is
\* set when unreachable!() is hit, and words are the words the allocator
\* has written outside the blocks (the magic sequence and the persisted
\* class table), by address.
\* ------------------------------------------------------------------------
EMPTY_WORD == 0
MAX_SEGREGATION_CLASSES == 28
MAX_COLLECTION_DECLARATIONS == 4
MEM_BLOCK_OVERHEAD_BYTES == 8
MIN_MEM_BLOCK_SIZE_BYTES == 32
SmaSIZE == 4 + MAX_SEGREGATION_CLASSES * 8 + MAX_COLLECTION_DECLARATIONS * 8
\* the bytes b"SMAM" read as a little-endian word
MAGIC == 1296125267
MAGIC_LEN == 4

\* context.write of one word outside the blocks
ContextWrite(st, addr, word) ==
    [st EXCEPT !.words = [a \in DOMAIN st.words \cup {addr} |->
                             IF a = addr THEN word ELSE st.words[a]]]

\* context.read of one word: a word written by the allocator, the first
\* word of a block header, or a byte range never written since the page
\* was grown
ContextRead(st, addr) ==
    IF addr \in DOMAIN st.words THEN st.words[addr]
    ELSE IF addr \in DOMAIN st.mem THEN st.mem[addr].size
    ELSE 0

\* MemBlock::write_free_at
WriteFreeAt(m, off, size, prev, next, data) ==
    MemPut(m, off, [size |-> size, allocated |-> FALSE, prev_free |-> prev,
                    next_free |-> next, data |-> data])

\* MemBlock::read_at(offset, side): the block that starts (Start) or ends
\* (End) at offset, NoBlock if there is none
ReadAtStart(st, off) == IF off \in DOMAIN st.mem THEN off ELSE NoBlock
ReadAtEnd(st, off) ==
    LET s == {o \in DOMAIN st.mem :
                 o + st.mem[o].size + 2 * MEM_BLOCK_OVERHEAD_BYTES = off}
    IN IF s = {} THEN NoBlock ELSE CHOOSE o \in s : TRUE

\* MemBlock::set_allocated
SetAllocated(st, off, flag) ==
    [st EXCEPT !.mem[off].allocated = flag,
               !.mem[off].prev_free = EMPTY_WORD,
               !.mem[off].next_free = EMPTY_WORD]

\* MemBlock::merge_with: self absorbs its physical neighbour other
MergeWith(st, self, other) ==
    LET lo == IF self < other THEN self ELSE other
        hi == IF self < other THEN other ELSE self
        blk == [st.mem[self] EXCEPT
                   !.size = st.mem[self].size + st.mem[other].size
                            + 2 * MEM_BLOCK_OVERHEAD_BYTES,
                   !.data = st.mem[lo].data]
    IN [st EXCEPT !.mem = MemPut(MemDel(st.mem, hi), lo, blk)]

\* MemBlock::split_mem_block: the front piece of the given size and the
\* free remainder behind it
SplitMemBlock(st, off, size) ==
    LET blk == st.mem[off]
        rest == off + size + 2 * MEM_BLOCK_OVERHEAD_BYTES
        m1 == MemPut(st.mem, off, [blk EXCEPT !.size = size])
    IN [st EXCEPT !.mem = WriteFreeAt(m1, rest,
                              blk.size - size - 2 * MEM_BLOCK_OVERHEAD_BYTES,
                              EMPTY_WORD, EMPTY_WORD, Clobbered)]

FindSegClassIdx(block_size_bytes) ==
    LET log == FloorLog2(block_size_bytes) IN
    IF log > 3 THEN log - 4 ELSE 0

\* a set_segregation_class that changes the field only
SetSegregationClassInField(st, seg_class_idx, ptr) ==
    [st EXCEPT !.classes[seg_class_idx + 1] = ptr]

SetSegregationClass(st, seg_class_idx, ptr) ==
    ContextWrite([st EXCEPT !.classes[seg_class_idx + 1] = ptr],
                 st.offset + MAGIC_LEN + seg_class_idx * 8, ptr)

RemoveBlockFromFreeList(st, off, idx) ==
    LET prev_offset == st.mem[off].prev_free
        next_offset == st.mem[off].next_free
    IN IF prev_offset # EMPTY_WORD /\ next_offset # EMPTY_WORD
       THEN [st EXCEPT !.mem[prev_offset].next_free = next_offset,
                       !.mem[next_offset].prev_free = prev_offset]
       ELSE IF prev_offset # EMPTY_WORD
       THEN [st EXCEPT !.mem[prev_offset].next_free = EMPTY_WORD]
       ELSE IF next_offset # EMPTY_WORD
       THEN SetSegregationClass(
                [st EXCEPT !.mem[next_offset].prev_free = EMPTY_WORD],
                idx, next_offset)
       ELSE SetSegregationClass(st, idx, EMPTY_WORD)

\* the loop of add_block_to_free_list (lines 339-363)
RECURSIVE AddBlockLoop(_, _, _, _)
AddBlockLoop(st, new, cur, next) ==
    IF new > cur /\ new < next
    THEN [st EXCEPT !.mem[cur].next_free = new,
                    !.mem[new].prev_free = cur,
                    !.mem[next].prev_free = new,
                    !.mem[new].next_free = next]
    ELSE IF st.mem[next].next_free = EMPTY_WORD
    THEN [st EXCEPT !.mem[next].next_free = new,
                    !.mem[new].prev_free = next]
    ELSE AddBlockLoop(st, new, next, st.mem[next].next_free)

AddBlockToFreeList(st0, new) ==
    LET st == [st0 EXCEPT !.mem[new].data = Clobbered]
        seg_class_idx == FindSegClassIdx(st.mem[new].size)
        cur == st.classes[seg_class_idx + 1]
    IN IF cur = EMPTY_WORD
       THEN SetSegregationClass(st, seg_class_idx, new)
       ELSE IF st.mem[cur].prev_free # EMPTY_WORD
       THEN [st EXCEPT !.panicked = TRUE]
       ELSE IF new < cur
       THEN [SetSegregationClass(st, seg_class_idx, new) EXCEPT
                 !.mem[cur].prev_free = new,
                 !.mem[new].next_free = cur]
       ELSE IF st.mem[cur].next_free = EMPTY_WORD
       THEN [st EXCEPT !.mem[cur].next_free = new,
                       !.mem[new].prev_free = cur]
       ELSE AddBlockLoop(st, new, cur, st.mem[cur].next_free)

\* first loop of find_appropriate_free_mem_block (lines 393-407)
RECURSIVE FirstAppropriate(_, _, _)
FirstAppropriate(st, cur, size) ==
    IF st.mem[cur].size < size
    THEN IF st.mem[cur].next_free = EMPTY_WORD
         THEN NoBlock
         ELSE FirstAppropriate(st, st.mem[cur].next_free, size)
    ELSE cur

\* second loop (lines 414-442): a closer fit later in the same list
RECURSIVE CloserAppropriate(_, _, _, _)
CloserAppropriate(st, best, next_free, size) ==
    IF next_free = EMPTY_WORD
    THEN best
    ELSE LET nb == st.mem[next_free] IN
         IF nb.size < size
         THEN CloserAppropriate(st, best, nb.next_free, size)
         ELSE IF st.mem[best].size - size > nb.size - size
         THEN CloserAppropriate(st, next_free, nb.next_free, size)
         ELSE CloserAppropriate(st, best, nb.next_free, size)

RECURSIVE FindAppropriateLoop(_, _, _, _)
FindAppropriateLoop(st, size, seg_class_idx, result) ==
    IF seg_class_idx >= MAX_SEGREGATION_CLASSES
    THEN result
    ELSE IF st.classes[seg_class_idx + 1] = EMPTY_WORD
    THEN FindAppropriateLoop(st, size, seg_class_idx + 1, result)
    ELSE LET first == FirstAppropriate(st, st.classes[seg_class_idx + 1], size) IN
         IF first = NoBlock
         THEN FindAppropriateLoop(st, size, seg_class_idx + 1, result)
         ELSE FindAppropriateLoop(st, size, seg_class_idx + 1,
                  [off |-> CloserAppropriate(st, first, st.mem[first].next_free, size),
                   idx |-> seg_class_idx])

FindAppropriateFreeMemBlock(st, size) ==
    FindAppropriateLoop(st, size, FindSegClassIdx(size),
                        [off |-> NoBlock, idx |-> 0])

SplitIfNeeded(st, off, size) ==
    IF st.mem[off].size - size >= MIN_MEM_BLOCK_SIZE_BYTES
    THEN Bind(SplitMemBlock(st, off, size), LAMBDA s1 :
         AddBlockToFreeList(s1, off + size + 2 * MEM_BLOCK_OVERHEAD_BYTES))
    ELSE st

\* MemContext::grow fails when the host limit would be exceeded
CanGrow(st, n) == st.pages + n <= MaxPages

\* a growth that writes the header of the new block before it asks the
\* context for the pages
GrowAfterWrite(st, size) ==
    LET offset == st.pages * PAGE_SIZE_BYTES
        size_need_pages == (size \div PAGE_SIZE_BYTES)
                           + (IF size % PAGE_SIZE_BYTES > 0 THEN 1 ELSE 0)
        written == [st EXCEPT !.mem = WriteFreeAt(st.mem, offset,
                                          size_need_pages * PAGE_SIZE_BYTES
                                          - 2 * MEM_BLOCK_OVERHEAD_BYTES,
                                          EMPTY_WORD, EMPTY_WORD, 0)]
    IN IF ~CanGrow(st, size_need_pages)
       THEN [ok |-> FALSE, st |-> written, off |-> NoBlock]
       ELSE [ok |-> TRUE,
             st |-> [written EXCEPT !.pages = st.pages + size_need_pages],
             off |-> offset]

\* returns [ok, st, off]
GrowAndCreateNewFreeBlock(st, size) ==
    LET offset == st.pages * PAGE_SIZE_BYTES
        size_need_pages == (size \div PAGE_SIZE_BYTES)
                           + (IF size % PAGE_SIZE_BYTES > 0 THEN 1 ELSE 0)
    IN IF ~CanGrow(st, size_need_pages)
       THEN [ok |-> FALSE, st |-> st, off |-> NoBlock]
       ELSE [ok |-> TRUE,
             st |-> [st EXCEPT
                       !.pages = st.pages + size_need_pages,
                       !.mem = WriteFreeAt(st.mem, offset,
                                   size_need_pages * PAGE_SIZE_BYTES
                                   - 2 * MEM_BLOCK_OVERHEAD_BYTES,
                                   EMPTY_WORD, EMPTY_WORD, 0)],
             off |-> offset]

\* the block has been found or created: split it and mark it allocated
\* (lines 31, 38, 41-43)
AllocateFrom(st, off, size) ==
    Bind(SplitIfNeeded(st, off, size), LAMBDA s2 :
    [ok |-> TRUE, st |-> SetAllocated(s2, off, TRUE), off |-> off])

\* returns [ok, st, off]
SmaAllocate(st, size) ==
    Bind(FindAppropriateFreeMemBlock(st, size), LAMBDA found :
    IF found.off # NoBlock
    THEN Bind(RemoveBlockFromFreeList(st, found.off, found.idx), LAMBDA s1 :
         AllocateFrom(s1, found.off, size))
    ELSE Bind(GrowAndCreateNewFreeBlock(st, size + MEM_BLOCK_OVERHEAD_BYTES * 2),
         LAMBDA g :
         IF ~g.ok
         THEN g
         ELSE AllocateFrom(g.st, g.off, size)))

\* the neighbour other of off is free: merge other with its own neighbour
\* first, take the result out of its free list, and absorb it (lines 75-85
\* and 92-101); returns [st, off]
RECURSIVE TryMerge(_, _, _)
MergeNeighbour(st, off, other, side) ==
    Bind(TryMerge(st, other, side), LAMBDA r :
    Bind(RemoveBlockFromFreeList(r.st, r.off, FindSegClassIdx(r.st.mem[r.off].size)),
         LAMBDA s1 :
    [st |-> MergeWith(s1, off, r.off),
     off |-> IF side = "Start" THEN off ELSE r.off]))

\* returns [st, off]: the state and the offset of the merged block
TryMerge(st, off, side) ==
    IF side = "Start"
    THEN Bind(ReadAtStart(st, off + st.mem[off].size + MEM_BLOCK_OVERHEAD_BYTES * 2),
         LAMBDA nxt :
         IF nxt # NoBlock /\ ~st.mem[nxt].allocated
         THEN MergeNeighbour(st, off, nxt, "Start")
         ELSE [st |-> st, off |-> off])
    ELSE Bind(ReadAtEnd(st, off), LAMBDA prv :
         IF prv # NoBlock /\ ~st.mem[prv].allocated
         THEN MergeNeighbour(st, off, prv, "End")
         ELSE [st |-> st, off |-> off])

\* a deallocate that puts the block on its free list as it is
SmaDeallocateUnmerged(st, offset) ==
    Bind(SetAllocated(st, offset, FALSE), LAMBDA s1 :
    AddBlockToFreeList(s1, offset))

SmaDeallocate(st, offset) ==
    Bind(SetAllocated(st, offset, FALSE), LAMBDA s1 :
    Bind(TryMerge(s1, offset, "End"), LAMBDA m1 :
    Bind(TryMerge(m1.st, m1.off, "Start"), LAMBDA m2 :
    AddBlockToFreeList(m2.st, m2.off))))

\* deallocate that does not look at the allocated flag
SmaDeallocateUnchecked(st, offset) ==
    [aborted |-> FALSE, st |-> SmaDeallocate(st, offset)]

\* deallocate with its checks (lines 45-60): [aborted, st]; aborted is the
\* unreachable!() of lines 47 and 51
SmaDeallocateCall(st, offset) ==
    IF ReadAtStart(st, offset) = NoBlock
    THEN [aborted |-> TRUE, st |-> st]
    ELSE IF ~st.mem[offset].allocated
    THEN [aborted |-> TRUE, st |-> st]
    ELSE [aborted |-> FALSE, st |-> SmaDeallocate(st, offset)]

\* returns [ok, st, off]
SmaReallocate(st, offset, wanted_size) ==
    IF st.mem[offset].size >= wanted_size
    THEN [ok |-> TRUE, st |-> st, off |-> offset]
    ELSE Bind(SetAllocated(st, offset, FALSE), LAMBDA s1 :
         Bind(TryMerge(s1, offset, "Start"), LAMBDA m1 :
         IF m1.st.mem[m1.off].size >= wanted_size
         THEN AllocateFrom(m1.st, m1.off, wanted_size)
         ELSE Bind(AddBlockToFreeList(m1.st, m1.off), LAMBDA s2 :
              SmaAllocate(s2, wanted_size))))

\* init(offset, context) on an empty TestMemContext (lines 156-172, 452-474,
\* 528-548): init_grow_if_need grows the pages that hold the header,
\* init_first_free_mem_block computes the size of the first block from them
\* and grows one more page when that size is below the minimum
SmaInit(offset) ==
    LET size_need_bytes == offset + SmaSIZE
        size_need_pages == (size_need_bytes \div PAGE_SIZE_BYTES)
                           + (IF size_need_bytes % PAGE_SIZE_BYTES > 0 THEN 1 ELSE 0)
        first == offset + SmaSIZE
        grown_bytes == size_need_pages * PAGE_SIZE_BYTES
        mem_block_size_bytes == (grown_bytes - first) - MEM_BLOCK_OVERHEAD_BYTES * 2
        pages == IF mem_block_size_bytes < MIN_MEM_BLOCK_SIZE_BYTES
                 THEN size_need_pages + 1 ELSE size_need_pages
        empty == [o \in {} |-> 0]
    IN Bind([mem |-> WriteFreeAt(empty, first, mem_block_size_bytes, 0, 0, 0),
             classes |-> [i \in 1..MAX_SEGREGATION_CLASSES |-> 0],
             pages |-> pages, panicked |-> FALSE,
             offset |-> offset, words |-> [a \in {offset} |-> MAGIC]],
            LAMBDA s0 :
            SetSegregationClass(s0, FindSegClassIdx(mem_block_size_bytes), first))

\* init(0, context)
SmaInitState == SmaInit(0)

\* reinit(offset, context): [ok, classes, offset], the fields of the
\* allocator it returns; ok is FALSE for Err(InvalidMagicSequence)
SmaReinit(st, offset) ==
    IF ContextRead(st, offset) # MAGIC
    THEN [ok |-> FALSE, classes |-> <<>>, offset |-> NoBlock]
    ELSE [ok |-> TRUE,
          classes |-> [i \in 1..MAX_SEGREGATION_CLASSES |->
                          ContextRead(st, offset + MAGIC_LEN + (i - 1) * 8)],
          offset |-> offset + MAGIC_LEN + MAX_SEGREGATION_CLASSES * 8]

\* ------------------------------------------------------------------------
\* mem/allocator.rs: MemBox<StableMemoryAllocator>
\* A state st is [mem, pages, magic, heads, allocated_size, free_size];
\* magic, heads, allocated_size and free_size are the words kept in the
\* payload of the allocator's own box, which sits at offset 0.  A box is addressed by the
\* offset of its first meta word; prev_free and next_free are the first two
\* words of the payload of a free box.
\* ------------------------------------------------------------------------
\* Word::MAX; words of the model are 31 bits wide
EMPTY_PTR == 2147483647
SEG_CLASS_PTRS_COUNT == 32 - 4
MEM_BOX_META_SIZE == 8
MEM_BOX_MIN_SIZE == 16
MbSIZE == 4 + SEG_CLASS_PTRS_COUNT * 8 + 8 * 2
MbSelfPtr == 0

\* MemBox::new_total_size: a box that spans total_size bytes
MbNewTotalSize(m, ptr, total_size, allocated, data) ==
    MemPut(m, ptr, [size |-> total_size - 2 * MEM_BOX_META_SIZE,
                    allocated |-> allocated, prev_free |-> EMPTY_PTR,
                    next_free |-> EMPTY_PTR, data |-> data])

\* MemBox::from_ptr
MbFromPtr(st, ptr) == IF ptr \in DOMAIN st.mem THEN ptr ELSE NoBlock

\* MemBox::get_neighbor
MbGetNeighbor(st, off, side) ==
    IF side = "Start"
    THEN LET s == {o \in DOMAIN st.mem :
                      o + st.mem[o].size + 2 * MEM_BOX_META_SIZE = off}
         IN IF s = {} THEN NoBlock ELSE CHOOSE o \in s : TRUE
    ELSE MbFromPtr(st, off + st.mem[off].size + 2 * MEM_BOX_META_SIZE)

\* MemBox::merge_with_neighbor
MbMergeWithNeighbor(st, self, other) ==
    LET lo == IF self < other THEN self ELSE other
        hi == IF self < other THEN other ELSE self
        blk == [st.mem[self] EXCEPT
                   !.size = st.mem[self].size + st.mem[other].size
                            + 2 * MEM_BOX_META_SIZE,
                   !.data = Clobbered]
    IN [st |-> [st EXCEPT !.mem = MemPut(MemDel(st.mem, hi), lo, blk)], off |-> lo]

\* MemBox::split: Ok needs room for the requested payload and for a second
\* box of the minimal size; returns [ok, st, rest]
MbSplit(st, off, size) ==
    LET blk == st.mem[off]
        rest == off + size + 2 * MEM_BOX_META_SIZE
    IN IF blk.size < size + MEM_BOX_MIN_SIZE + 2 * MEM_BOX_META_SIZE
       THEN [ok |-> FALSE, st |-> st, rest |-> NoBlock]
       ELSE [ok |-> TRUE,
             st |-> [st EXCEPT !.mem =
                        MbNewTotalSize(MemPut(st.mem, off, [blk EXCEPT !.size = size]),
                                       rest, blk.size - size, FALSE, blk.data)],
             rest |-> rest]

MbSetAllocated(st, off, flag) == [st EXCEPT !.mem[off].allocated = flag]

GetSegClassId(size) ==
    LET log0 == FloorLog2(size)
        log == IF 2^log0 < size THEN log0 + 1 ELSE log0
    IN IF log > 3 THEN log - 4 ELSE 0

GetSegClassHead(st, id) ==
    IF st.heads[id + 1] = EMPTY_PTR THEN NoBlock ELSE MbFromPtr(st, st.heads[id + 1])

SetSegClassHead(st, id, head_ptr) == [st EXCEPT !.heads[id + 1] = head_ptr]

EjectFromFreelist(st, seg_class_id, off) ==
    LET prev_ptr == st.mem[off].prev_free
        next_ptr == st.mem[off].next_free
        next_opt == MbFromPtr(st, next_ptr)
        s1 == IF prev_ptr = MbSelfPtr
              THEN LET h == SetSegClassHead(st, seg_class_id, next_ptr) IN
                   IF next_opt # NoBlock
                   THEN [h EXCEPT !.mem[next_opt].prev_free = MbSelfPtr]
                   ELSE h
              ELSE IF next_opt # NoBlock
                   THEN [st EXCEPT !.mem[prev_ptr].next_free = next_opt,
                                   !.mem[next_opt].prev_free = prev_ptr]
                   ELSE [st EXCEPT !.mem[prev_ptr].next_free = EMPTY_PTR]
    IN [s1 EXCEPT !.mem[off].prev_free = EMPTY_PTR,
                  !.mem[off].next_free = EMPTY_PTR,
                  !.mem[off].data = Clobbered]

\* the neighbour is free: eject it from its free list and absorb it
\* (lines 336-340 and 352-356); returns [st, off]
MergeFreeNeighbor(st, off, neighbor) ==
    Bind(EjectFromFreelist(st, GetSegClassId(st.mem[neighbor].size), neighbor),
         LAMBDA s1 : MbMergeWithNeighbor(s1, off, neighbor))

\* a push that leaves both neighbours alone
MaybeMergeNever(st, off) == [st |-> st, off |-> off]

\* returns [st, off]
MaybeMergeWithFreeNeighbors(st, off) ==
    Bind(MbGetNeighbor(st, off, "Start"), LAMBDA prev_neighbor :
    Bind(IF prev_neighbor # NoBlock /\ ~st.mem[prev_neighbor].allocated
         THEN MergeFreeNeighbor(st, off, prev_neighbor)
         ELSE [st |-> st, off |-> off], LAMBDA a :
    Bind(MbGetNeighbor(a.st, a.off, "End"), LAMBDA next_neighbor :
    IF next_neighbor # NoBlock /\ ~a.st.mem[next_neighbor].allocated
    THEN MergeFreeNeighbor(a.st, a.off, next_neighbor)
    ELSE a)))

PushFreeMembox(st, off) ==
    Bind(MaybeMergeWithFreeNeighbors(st, off), LAMBDA mm :
    LET s == mm.st
        box == mm.off
        seg_class_id == GetSegClassId(s.mem[box].size)
        head_opt == GetSegClassHead(s, seg_class_id)
        s1 == [SetSegClassHead(s, seg_class_id, box) EXCEPT
                  !.mem[box].prev_free = MbSelfPtr,
                  !.mem[box].data = Clobbered]
    IN IF head_opt = NoBlock
       THEN [s1 EXCEPT !.mem[box].next_free = EMPTY_PTR]
       ELSE [s1 EXCEPT !.mem[box].next_free = head_opt,
                       !.mem[head_opt].prev_free = box])

\* first loop of pop_allocated_membox (lines 181-199): NoBlock if no box of
\* the class is big enough
RECURSIVE PopScanClass(_, _, _)
PopScanClass(st, box, size) ==
    IF st.mem[box].size >= size
    THEN box
    ELSE IF st.mem[box].next_free = EMPTY_PTR
    THEN NoBlock
    ELSE PopScanClass(st, MbFromPtr(st, st.mem[box].next_free), size)

\* the while loop over the larger classes (lines 206-216): [opt, id]
RECURSIVE PopScanLarger(_, _, _, _)
PopScanLarger(st, size, seg_class_id, free_membox_opt) ==
    IF seg_class_id < SEG_CLASS_PTRS_COUNT
    THEN LET head == GetSegClassHead(st, seg_class_id) IN
         IF head # NoBlock /\ st.mem[head].size >= size
         THEN [opt |-> head, id |-> seg_class_id]
         ELSE PopScanLarger(st, size, seg_class_id + 1, head)
    ELSE [opt |-> free_membox_opt, id |-> seg_class_id]

\* stable::grow fails when the host limit would be exceeded
MbCanGrow(st, n) == st.pages + n <= MaxPages

\* split the box in two, take the first, push the second (lines 223-236
\* and 255-268)
PopSplit(st, box, size) ==
    Bind(MbSplit(st, box, size), LAMBDA res :
    IF res.ok
    THEN Bind(MbSetAllocated(res.st, box, TRUE), LAMBDA s1 :
         PushFreeMembox(s1, res.rest))
    ELSE MbSetAllocated(st, box, TRUE))

\* the grow branch (lines 239-270); returns [ok, st, off]
PopGrow(st, size) ==
    LET pages_to_grow == (size \div PAGE_SIZE_BYTES) + 1
        prev_total_size == st.pages * PAGE_SIZE_BYTES
    IN IF ~MbCanGrow(st, pages_to_grow)
       THEN [ok |-> FALSE, st |-> st, off |-> NoBlock]
       ELSE LET total_free_size == (st.pages + pages_to_grow) * PAGE_SIZE_BYTES
                                   - prev_total_size
            IN Bind(MbNewTotalSize(st.mem, prev_total_size, total_free_size, FALSE, 0),
                    LAMBDA m1 :
               Bind([st EXCEPT !.pages = st.pages + pages_to_grow,
                               !.mem = m1,
                               !.free_size = st.free_size + m1[prev_total_size].size],
                    LAMBDA s1 :
               [ok |-> TRUE, st |-> PopSplit(s1, prev_total_size, size),
                off |-> prev_total_size]))

\* returns [ok, st, off]
PopAllocatedMembox(st, size) ==
    LET seg_class_id == GetSegClassId(size) IN
    Bind(GetSegClassHead(st, seg_class_id), LAMBDA head :
    Bind(IF head = NoBlock THEN NoBlock ELSE PopScanClass(st, head, size), LAMBDA hit :
    IF hit # NoBlock
    THEN Bind(EjectFromFreelist(st, seg_class_id, hit), LAMBDA s1 :
         [ok |-> TRUE, st |-> MbSetAllocated(s1, hit, TRUE), off |-> hit])
    ELSE Bind(PopScanLarger(st, size, seg_class_id + 1, NoBlock), LAMBDA larger :
         IF larger.opt # NoBlock
         THEN Bind(EjectFromFreelist(st, larger.id, larger.opt), LAMBDA s1 :
              [ok |-> TRUE, st |-> PopSplit(s1, larger.opt, size), off |-> larger.opt])
         ELSE PopGrow(st, size))))

\* allocate that adds the requested size to allocated_size
MbAllocateCountsRequested(st, size0) ==
    LET size == IF size0 < MEM_BOX_MIN_SIZE THEN MEM_BOX_MIN_SIZE ELSE size0 IN
    Bind(PopAllocatedMembox(st, size), LAMBDA p :
    IF ~p.ok
    THEN p
    ELSE LET membox_size == p.st.mem[p.off].size IN
         [p EXCEPT !.st.free_size = p.st.free_size - membox_size,
                   !.st.allocated_size = p.st.allocated_size + size])

\* returns [ok, st, off]
MbAllocate(st, size0) ==
    LET size == IF size0 < MEM_BOX_MIN_SIZE THEN MEM_BOX_MIN_SIZE ELSE size0 IN
    Bind(PopAllocatedMembox(st, size), LAMBDA p :
    IF ~p.ok
    THEN p
    ELSE LET membox_size == p.st.mem[p.off].size IN
         [p EXCEPT !.st.free_size = p.st.free_size - membox_size,
                   !.st.allocated_size = p.st.allocated_size + membox_size])

MbDeallocate(st, off) ==
    LET size == st.mem[off].size IN
    Bind([MbSetAllocated(st, off, FALSE) EXCEPT
             !.free_size = st.free_size + size,
             !.allocated_size = st.allocated_size - size],
         LAMBDA s1 : PushFreeMembox(s1, off))

\* deallocate with assert_allocated(true, Some(allocated)) (lines 94-107):
\* [aborted, st]; the assertion (mem::membox, not part of src/) panics when
\* the flag read from the header differs from the expected one
MbDeallocateCall(st, off) ==
    IF ~st.mem[off].allocated
    THEN [aborted |-> TRUE, st |-> st]
    ELSE [aborted |-> FALSE, st |-> MbDeallocate(st, off)]

\* returns [ok, st, off, copied]: copied is the number of bytes written
\* into the new box
MbReallocate(st, off, new_size) ==
    LET n == st.mem[off].size
        data == st.mem[off].data
    IN Bind(MbDeallocate(st, off), LAMBDA s1 :
       Bind(MbAllocate(s1, new_size), LAMBDA a :
       IF ~a.ok
       THEN [ok |-> FALSE, st |-> a.st, off |-> NoBlock, copied |-> 0]
       ELSE [ok |-> TRUE, st |-> [a.st EXCEPT !.mem[a.off].data = data],
             off |-> a.off, copied |-> n]))

\* stable::clear(); stable::grow(1); init(0): the allocator's box, then
\* reset() (lines 50-57, 124-147)
MbInitState ==
    LET empty == [o \in {} |-> 0]
        ptr == MbSelfPtr + MbSIZE + 2 * MEM_BOX_META_SIZE
        total_free_size == 1 * PAGE_SIZE_BYTES - ptr
    IN Bind(MemPut(empty, MbSelfPtr,
                   [size |-> MbSIZE, allocated |-> TRUE, prev_free |-> EMPTY_PTR,
                    next_free |-> EMPTY_PTR, data |-> Clobbered]), LAMBDA m0 :
       Bind(MbNewTotalSize(m0, ptr, total_free_size, FALSE, 0), LAMBDA m1 :
       Bind([mem |-> IF total_free_size > 0 THEN m1 ELSE m0, pages |-> 1,
             magic |-> MAGIC,
             heads |-> [i \in 1..SEG_CLASS_PTRS_COUNT |-> EMPTY_PTR],
             allocated_size |-> 0,
             free_size |-> IF total_free_size > 0 THEN m1[ptr].size ELSE 0],
            LAMBDA s0 :
       IF total_free_size > 0 THEN PushFreeMembox(s0, ptr) ELSE s0)))

\* the first word and the class head words of the payload of a box: those
\* of the allocator's own box are kept in the state, those of any other box
\* are its payload
MbMagicAt(st, ptr) == IF ptr = MbSelfPtr THEN st.magic ELSE st.mem[ptr].data
MbHeadsAt(st, ptr) ==
    IF ptr = MbSelfPtr THEN st.heads
    ELSE [i \in 1..SEG_CLASS_PTRS_COUNT |-> st.mem[ptr].data]

\* a reinit that looks at the magic sequence only
MbReinitMagicOnly(st, offset) ==
    LET membox == MbFromPtr(st, offset) IN
    IF membox = NoBlock \/ MbMagicAt(st, membox) # MAGIC
    THEN [ok |-> FALSE, classes |-> <<>>, offset |-> NoBlock]
    ELSE [ok |-> TRUE, classes |-> MbHeadsAt(st, membox), offset |-> membox]

\* reinit(offset): [ok, classes, offset]; ok is FALSE for None, offset is
\* the box returned and classes the head table read through it
MbReinit(st, offset) ==
    LET membox == MbFromPtr(st, offset) IN
    IF membox = NoBlock
    THEN [ok |-> FALSE, classes |-> <<>>, offset |-> NoBlock]
    ELSE IF ~st.mem[membox].allocated \/ st.mem[membox].size # MbSIZE
    THEN [ok |-> FALSE, classes |-> <<>>, offset |-> NoBlock]
    ELSE IF MbMagicAt(st, membox) # MAGIC
    THEN [ok |-> FALSE, classes |-> <<>>, offset |-> NoBlock]
    ELSE [ok |-> TRUE, classes |-> MbHeadsAt(st, membox), offset |-> membox]

\* ------------------------------------------------------------------------
\* InternalBTreeNode (src/src/collections/btree_map/internal_node.rs): a node
\* of the offset-addressed tree, a flat record in stable memory
\*     node_type, len, children: [u64; CHILDREN_CAPACITY], keys: [K; CAPACITY]
\* modelled as [len, keys, children] with one entry per slot. A slot that
\* was never written holds Junk. The key and child-pointer primitives copy
\* slots and leave len alone: the caller writes it with write_len.
\* ------------------------------------------------------------------------
\* constants of collections::btree_map of that tree (the module defining
\* them is not part of src/; the values follow from the slot counts of a
\* node with CAPACITY keys and from tests::works_fine)
CHILDREN_CAPACITY == 2 * B
CHILDREN_MIN_LEN_AFTER_SPLIT == B
Junk == -1

\* create_empty (lines 50-61)
CreateEmpty ==
    [len |-> 0, keys |-> [i \in 1..CAPACITY |-> Junk],
     children |-> [i \in 1..CHILDREN_CAPACITY |-> Junk]]

\* read_key, write_key, read_child_ptr, write_child_ptr (lines 299-334)
ReadKey(n, idx) == n.keys[idx + 1]
WriteKey(n, idx, key) == [n EXCEPT !.keys[idx + 1] = key]
ReadChildPtr(n, idx) == n.children[idx + 1]
WriteChildPtr(n, idx, ptr) == [n EXCEPT !.children[idx + 1] = ptr]

\* read_keys_to_buf, write_keys_from_buf, read_child_ptrs_to_buf,
\* write_child_ptrs_from_buf (lines 304-339): block copies of slots
ReadKeysToBuf(n, from_idx, len) == SubSeq(n.keys, from_idx + 1, from_idx + len)
WriteKeysFromBuf(n, from_idx, buf) ==
    [n EXCEPT !.keys = [i \in 1..CAPACITY |->
        IF i > from_idx /\ i <= from_idx + Len(buf) THEN buf[i - from_idx]
        ELSE n.keys[i]]]
ReadChildPtrsToBuf(n, from_idx, len) ==
    SubSeq(n.children, from_idx + 1, from_idx + len)
WriteChildPtrsFromBuf(n, from_idx, buf) ==
    [n EXCEPT !.children = [i \in 1..CHILDREN_CAPACITY |->
        IF i > from_idx /\ i <= from_idx + Len(buf) THEN buf[i - from_idx]
        ELSE n.children[i]]]

\* write_len (lines 353-356)
WriteLen(n, len) == [n EXCEPT !.len = len]

\* create (lines 63-79)
Create(key, lcp, rcp) ==
    WriteChildPtr(WriteChildPtr(WriteKey(WriteLen(CreateEmpty, 1), 0, key),
                                0, lcp), 1, rcp)

\* push_key, insert_key (lines 221-236)
PushKey(n, key, len) == WriteKey(n, len, key)
InsertKey(n, idx, key, len) ==
    IF idx = len THEN PushKey(n, key, len)
    ELSE WriteKey(WriteKeysFromBuf(n, idx + 1, ReadKeysToBuf(n, idx, len - idx)),
                  idx, key)

\* push_child_ptr, insert_child_ptr (lines 247-268)
PushChildPtr(n, ptr, children_len) == WriteChildPtr(n, children_len, ptr)
InsertChildPtr(n, idx, ptr, children_len) ==
    IF idx = children_len THEN PushChildPtr(n, ptr, children_len)
    ELSE WriteChildPtr(
             WriteChildPtrsFromBuf(n, idx + 1,
                 ReadChildPtrsToBuf(n, idx, children_len - idx)),
             idx, ptr)

\* split_max_len that hands back the key at index B
SplitMaxLenMidAtB(n) ==
    LET right0 == CreateEmpty
        right1 == WriteKeysFromBuf(right0, 0, ReadKeysToBuf(n, B, MIN_LEN_AFTER_SPLIT))
        right2 == WriteChildPtrsFromBuf(right1, 0,
                      ReadChildPtrsToBuf(n, B, CHILDREN_MIN_LEN_AFTER_SPLIT))
    IN [self |-> n, right |-> right2, mid |-> ReadKey(n, B)]

\* split_max_len (lines 193-207): [self, right, mid]
SplitMaxLen(n) ==
    LET right0 == CreateEmpty
        right1 == WriteKeysFromBuf(right0, 0, ReadKeysToBuf(n, B, MIN_LEN_AFTER_SPLIT))
        right2 == WriteChildPtrsFromBuf(right1, 0,
                      ReadChildPtrsToBuf(n, B, CHILDREN_MIN_LEN_AFTER_SPLIT))
    IN [self |-> n, right |-> right2, mid |-> ReadKey(n, MIN_LEN_AFTER_SPLIT)]

\* remove_key (lines 238-245), remove_child_ptr (lines 270-277)
RemoveKey(n, idx, len) ==
    IF idx = len - 1 THEN n
    ELSE WriteKeysFromBuf(n, idx, ReadKeysToBuf(n, idx + 1, len - idx - 1))
RemoveChildPtr(n, idx, children_len) ==
    IF idx = children_len - 1 THEN n
    ELSE WriteChildPtrsFromBuf(n, idx,
             ReadChildPtrsToBuf(n, idx + 1, children_len - idx - 1))

\* merge_min_len that writes the keys of right from index B - 1 on
MergeMinLenKeysAtMid(n, mid, right) ==
    Bind(PushKey(n, mid, MIN_LEN_AFTER_SPLIT), LAMBDA n1 :
    Bind(WriteKeysFromBuf(n1, MIN_LEN_AFTER_SPLIT,
                          ReadKeysToBuf(right, 0, MIN_LEN_AFTER_SPLIT)), LAMBDA n2 :
    [self |-> WriteChildPtrsFromBuf(n2, B,
                  ReadChildPtrsToBuf(right, 0, CHILDREN_MIN_LEN_AFTER_SPLIT)),
     destroyed |-> <<right>>]))

\* merge_min_len (lines 209-219): [self, destroyed]; destroyed lists the
\* nodes handed to destroy (line 218), which deallocates the node's slice
\* (lines 82-85)
MergeMinLen(n, mid, right) ==
    Bind(PushKey(n, mid, MIN_LEN_AFTER_SPLIT), LAMBDA n1 :
    Bind(WriteKeysFromBuf(n1, B, ReadKeysToBuf(right, 0, MIN_LEN_AFTER_SPLIT)),
         LAMBDA n2 :
    [self |-> WriteChildPtrsFromBuf(n2, B,
                  ReadChildPtrsToBuf(right, 0, CHILDREN_MIN_LEN_AFTER_SPLIT)),
     destroyed |-> <<right>>]))

\* the loop of binary_search (lines 98-129): [found, idx] is Ok(idx) or
\* Err(idx)
RECURSIVE NodeBinSearchLoop(_, _, _, _, _)
NodeBinSearchLoop(n, k, min, max, mid) ==
    IF ReadKey(n, mid) = k THEN [found |-> TRUE, idx |-> mid]
    ELSE IF ReadKey(n, mid) > k
    THEN IF (mid - min) \div 2 + min = mid
         THEN [found |-> FALSE, idx |-> mid]
         ELSE NodeBinSearchLoop(n, k, min, mid, (mid - min) \div 2 + min)
    ELSE IF (max - mid) \div 2 + mid = mid
         THEN [found |-> FALSE, idx |-> mid + 1]
         ELSE NodeBinSearchLoop(n, k, mid, max, (max - mid) \div 2 + mid)

\* binary_search (lines 87-130)
NodeBinarySearch(n, k, len) == NodeBinSearchLoop(n, k, 0, len, len \div 2)

\* no extra element is handed to steal_from_left / steal_from_right
NoElement == [some |-> FALSE, k |-> Junk, c |-> Junk]

\* steal_from_left that leaves the key of the parent as it was
StealFromLeftKeepsParent(self, self_len, left_sibling, left_sibling_len, parent, parent_idx, element) ==
    Bind(InsertChildPtr(self, 0, ReadChildPtr(left_sibling, left_sibling_len),
                        self_len + 1), LAMBDA self1 :
    [self |-> InsertKey(self1, 0, ReadKey(parent, parent_idx), self_len),
     sibling |-> left_sibling,
     parent |-> parent])

\* steal_from_left (lines 132-156): [self, sibling, parent]
StealFromLeft(self, self_len, left_sibling, left_sibling_len, parent, parent_idx, element) ==
    Bind(IF element.some
         THEN InsertChildPtr(self, 0, element.c, self_len + 1)
         ELSE InsertChildPtr(self, 0, ReadChildPtr(left_sibling, left_sibling_len),
                             self_len + 1), LAMBDA self1 :
    [self |-> InsertKey(self1, 0, ReadKey(parent, parent_idx), self_len),
     sibling |-> left_sibling,
     parent |-> IF element.some THEN WriteKey(parent, parent_idx, element.k)
                ELSE WriteKey(parent, parent_idx,
                              ReadKey(left_sibling, left_sibling_len - 1))])

\* steal_from_right (lines 158-191): [self, sibling, parent]
StealFromRight(self, self_len, right_sibling, right_sibling_len, parent, parent_idx, element) ==
    Bind(PushKey(self, ReadKey(parent, parent_idx), self_len), LAMBDA self1 :
    [self |-> PushChildPtr(self1, ReadChildPtr(right_sibling, 0), self_len + 1),
     sibling |-> IF element.some THEN WriteChildPtr(right_sibling, 0, element.c)
                 ELSE Bind(RemoveKey(right_sibling, 0, right_sibling_len),
                           LAMBDA rs1 :
                           RemoveChildPtr(rs1, 0, right_sibling_len + 1)),
     parent |-> IF element.some THEN WriteKey(parent, parent_idx, element.k)
                ELSE WriteKey(parent, parent_idx, ReadKey(right_sibling, 0))])

\* ------------------------------------------------------------------------
\* Certification layer (spec.md 4.3). Of the certified map the sources hold
\* the accessors of the root_hash field (internal_node.rs:341-386) and a
\* benchmark that calls witness (benches/certified_map.rs:77-101); the
\* hashing, the pass that rewrites the hashes and the witness are modelled
\* from the description. The root_hash fields of the nodes of a tree are a
\* tree of the same shape, [h, sub].
\* ------------------------------------------------------------------------
\* a digest: collisions are possible, as with any digest
HashMod == 1000003
Mix(a, b) == (31 * a + b + 1) % HashMod
EntryHash(k, v) == Mix(Mix(17, k), v)

\* the root hash of a node: the root hashes hs of its children interleaved
\* with the hashes of its keys and values; a leaf has no children
RECURSIVE NodeHashFrom(_, _, _, _, _)
NodeHashFrom(keys, values, hs, i, acc) ==
    IF i < Len(keys)
    THEN NodeHashFrom(keys, values, hs, i + 1,
             Mix(IF i < Len(hs) THEN Mix(acc, VecAt(hs, i)) ELSE acc,
                 EntryHash(VecAt(keys, i), VecAt(values, i))))
    ELSE IF i < Len(hs) THEN Mix(acc, VecAt(hs, i)) ELSE acc
NodeHash(keys, values, hs) == NodeHashFrom(keys, values, hs, 0, 7)

\* read_root_hash (internal_node.rs:347-351) and read_child_root_hash
\* (internal_node.rs:369-386) on the fields c of a node
ReadRootHash(c) == c.h
ReadChildRootHash(c, idx) == ReadRootHash(VecAt(c.sub, idx))

\* the fields of a tree of one empty leaf
EmptyCert == [h |-> NodeHash(<<>>, <<>>, <<>>), sub |-> <<>>]

\* every node of a tree with its fields
RECURSIVE StoredIn(_, _)
StoredIn(node, c) ==
    {[node |-> node, cert |-> c]} \cup
    UNION {StoredIn(VecAt(node.children, i), VecAt(c.sub, i)) :
              i \in 0..(Len(node.children) - 1)}

\* a pass that rewrites the hash of a node only when the keys, values or
\* number of children of the node itself changed, not when a node below it did
RECURSIVE CertifyChangedOnly(_, _)
CertifyChangedOnly(node, stored) ==
    Bind([i \in 1..Len(node.children) |->
              CertifyChangedOnly(VecAt(node.children, i - 1), stored)],
         LAMBDA sub :
         LET same == {s \in stored : /\ s.node.keys = node.keys
                                     /\ s.node.values = node.values
                                     /\ Len(s.node.children) = Len(node.children)}
         IN [h |-> IF same # {} THEN ReadRootHash((CHOOSE s \in same : TRUE).cert)
                   ELSE NodeHash(node.keys, node.values,
                                 [i \in 1..Len(sub) |-> ReadRootHash(sub[i])]),
             sub |-> sub])

\* the bottom-up pass of a mutating operation (spec.md 4.2 step 4, 4.3): a
\* node whose subtree is as it was keeps its fields; the hash of every other
\* node is recomputed from its content and the hashes of its children, and
\* written (write_root_hash, internal_node.rs:341-345)
RECURSIVE Certify(_, _)
Certify(node, stored) ==
    IF \E s \in stored : s.node = node
    THEN (CHOOSE s \in stored : s.node = node).cert
    ELSE Bind([i \in 1..Len(node.children) |->
                   Certify(VecAt(node.children, i - 1), stored)],
              LAMBDA sub :
              [h |-> NodeHash(node.keys, node.values,
                              [i \in 1..Len(sub) |-> ReadRootHash(sub[i])]),
               sub |-> sub])

\* the fields after an operation that turned the tree old with fields c
\* into the tree new
Recertify(old, c, new) ==
    Bind(StoredIn(old, c), LAMBDA stored : Certify(new, stored))

\* a witness that follows the child after the one the search enters
RECURSIVE WitnessWrongChild(_, _, _)
WitnessWrongChild(node, c, key) ==
    LET bs == BinarySearch(node.keys, key) IN
    [keys |-> node.keys, values |-> node.values,
     subs |-> [i \in 1..Len(node.children) |->
                  IF ~bs.found /\ i - 1 = (bs.idx + 1) % Len(node.children)
                  THEN [pruned |-> FALSE, hash |-> 0,
                        node |-> WitnessWrongChild(VecAt(node.children, i - 1),
                                                   VecAt(c.sub, i - 1), key)]
                  ELSE [pruned |-> TRUE, hash |-> ReadChildRootHash(c, i - 1),
                        node |-> <<>>]]]

\* witness(key) (spec.md 4.3): the nodes on the path of the search for key
\* with their keys and values; every other child of a path node is pruned
\* to its root hash
RECURSIVE Witness(_, _, _)
Witness(node, c, key) ==
    LET bs == BinarySearch(node.keys, key) IN
    [keys |-> node.keys, values |-> node.values,
     subs |-> [i \in 1..Len(node.children) |->
                  IF ~bs.found /\ i - 1 = bs.idx
                  THEN [pruned |-> FALSE, hash |-> 0,
                        node |-> Witness(VecAt(node.children, i - 1),
                                         VecAt(c.sub, i - 1), key)]
                  ELSE [pruned |-> TRUE, hash |-> ReadChildRootHash(c, i - 1),
                        node |-> <<>>]]]

\* the root hash a verifier recomputes from a witness alone
RECURSIVE Reconstruct(_)
Reconstruct(w) ==
    Bind([i \in 1..Len(w.subs) |->
              IF w.subs[i].pruned THEN w.subs[i].hash
              ELSE Reconstruct(w.subs[i].node)],
         LAMBDA hs : NodeHash(w.keys, w.values, hs))

\* ------------------------------------------------------------------------
\* State of the map and of the calls made on it
\* ------------------------------------------------------------------------
VARIABLES
    root,      \* SBTreeMap.root
    len,       \* SBTreeMap.len
    last,      \* the last call: [kind, key, value, res]
    pre,       \* the map before the last call: [root, len]
    ref,       \* the key -> value map the calls made so far describe
    onlyIns,   \* no remove call has been made so far
    dir,       \* order of the bulk load: "asc" or "desc"
    loaded,    \* number of keys loaded
    freeOps,   \* number of freely chosen calls made
    obs,       \* what the calls did inside:
               \* [used, released, entered, swap, rootLen, insEntered, splits]
    cert       \* the root_hash fields of the nodes of the tree

\* ------------------------------------------------------------------------
\* State of the InternalBTreeNode under test
\* ------------------------------------------------------------------------
VARIABLES
    inode      \* [kind, n, before, right, mid, parent, was, released, search]:
               \* the last call made on the node, the node, the node before
               \* that call and, after a split, the node and the key
               \* split_max_len returned and the parent created for the two
               \* halves; was holds right and parent before the call and,
               \* after a merge, the node before the split,
               \* released the nodes the call destroyed, search the
               \* arguments and result of a binary_search;
               \* kind is "idle" while the map is under test

treeVars == <<root, len, last, pre, ref, onlyIns, dir, loaded, freeOps, obs, cert,
              inode>>

\* ------------------------------------------------------------------------
\* State of the allocator under test and of the calls made on it
\* ------------------------------------------------------------------------
VARIABLES
    impl,      \* the allocator under test: "sma" (stable_memory_allocator.rs),
               \* "mb" (mem/allocator.rs), "none" when the map is under test
    sma,       \* MemContext and StableMemoryAllocator: [mem, classes, pages, panicked]
    mb,        \* stable memory of the MemBox allocator:
               \* [mem, pages, heads, allocated_size, free_size]
    alast,     \* the last allocator call
    reat,      \* the allocator object the last call returned, if it was a reinit
    rt,        \* progress of an allocate, deallocate, allocate round trip
    plain,     \* no reallocate call has been made so far
    apre,      \* the state of the allocator under test before the last call
    allocOps   \* number of allocator calls made

allocVars == <<impl, sma, mb, alast, reat, rt, plain, apre, allocOps>>

vars == <<treeVars, allocVars>>

\* no round trip is under way
RtIdle == [stage |-> 0, n |-> 0, first |-> NoBlock, second |-> NoBlock,
          free_off |-> NoBlock, free_size |-> 0]

\* no allocator object was returned by the last call
NoReinit == [ok |-> FALSE, classes |-> <<>>, offset |-> NoBlock]

\* keys and values of the freely chosen calls
FreeKeys == {3, 24, 72, 75, 87, 90, 138, 159}
FreeValues == {2}

\* the n-th key of the bulk load
LoadKey(n) == IF dir = "asc" THEN 2 * n ELSE 2 * (MaxLoad + 1 - n)

RefPut(f, k, v) == [x \in DOMAIN f \cup {k} |-> IF x = k THEN v ELSE f[x]]
RefDel(f, k) == [x \in DOMAIN f \ {k} |-> f[x]]
EmptyRef == [x \in {} |-> 0]

\* nothing observed yet: no insert was made and no node was released
NoObs == [used |-> FALSE, released |-> <<>>, entered |-> <<>>, swap |-> NoSwap,
          rootLen |-> 0, insEntered |-> <<>>, splits |-> <<>>, sibs |-> <<>>]

\* the node is not exercised; no node has been created yet
NoSearch == [k |-> 0, len |-> 0, res |-> [found |-> FALSE, idx |-> 0]]
NodeIdle == [kind |-> "idle", n |-> CreateEmpty, before |-> CreateEmpty,
             right |-> CreateEmpty, mid |-> Junk, parent |-> CreateEmpty,
             was |-> [right |-> CreateEmpty, parent |-> CreateEmpty,
                      before |-> CreateEmpty],
             released |-> <<>>, search |-> NoSearch]
NodeAbsent == [NodeIdle EXCEPT !.kind = "absent"]

\* the allocators are not exercised while the map is under test
AllocIdle ==
    /\ impl = "none"
    /\ sma = SmaInitState
    /\ mb = MbInitState
    /\ alast = [kind |-> "init"]
    /\ reat = NoReinit
    /\ rt = RtIdle
    /\ plain = TRUE
    /\ apre = SmaInitState
    /\ allocOps = 0

TreeInit ==
    /\ root = BTreeNodeNew(TRUE, TRUE)
    /\ len = 0
    /\ last = [kind |-> "new", key |-> 0, value |-> 0, res |-> None]
    /\ pre = [root |-> BTreeNodeNew(TRUE, TRUE), len |-> 0]
    /\ ref = EmptyRef
    /\ onlyIns = TRUE
    /\ \/ dir \in {"asc", "desc"} /\ inode = NodeIdle
       \/ dir = "asc" /\ inode = NodeAbsent
    /\ loaded = 0
    /\ freeOps = 0
    /\ obs = NoObs
    /\ cert = EmptyCert
    /\ AllocIdle

DoInsert(key, value) ==
    \E m \in {MapInsert([root |-> root, len |-> len], key, value)} :
    /\ root' = m.root
    /\ len' = m.len
    /\ last' = [kind |-> "insert", key |-> key, value |-> value, res |-> m.res]
    /\ pre' = [root |-> root, len |-> len]
    /\ ref' = RefPut(ref, key, value)
    /\ obs' = [obs EXCEPT !.used = TRUE, !.entered = <<>>, !.swap = NoSwap,
                           !.rootLen = m.rootLen, !.insEntered = m.entered,
                           !.splits = m.splits, !.sibs = <<>>]
    /\ cert' = Recertify(root, cert, m.root)
    /\ UNCHANGED <<onlyIns, dir>>

DoRemove(key) ==
    \E m \in {MapRemove([root |-> root, len |-> len], key)} :
    /\ root' = m.root
    /\ len' = m.len
    /\ last' = [kind |-> "remove", key |-> key, value |-> 0, res |-> m.res]
    /\ pre' = [root |-> root, len |-> len]
    /\ ref' = RefDel(ref, key)
    /\ obs' = [obs EXCEPT !.entered = m.entered, !.swap = m.swap,
                           !.rootLen = 0, !.insEntered = <<>>, !.splits = <<>>,
                           !.sibs = m.sibs]
    /\ cert' = Recertify(root, cert, m.root)
    /\ onlyIns' = FALSE
    /\ UNCHANGED dir

\* bulk load: insert the next key of the load order
TreeLoad ==
    /\ inode.kind = "idle"
    /\ last.kind # "drop"
    /\ freeOps = 0
    /\ loaded < MaxLoad
    /\ DoInsert(LoadKey(loaded + 1), 1)
    /\ loaded' = loaded + 1
    /\ UNCHANGED <<freeOps, inode, allocVars>>

TreeInsert ==
    /\ inode.kind = "idle"
    /\ last.kind # "drop"
    /\ freeOps < MaxFreeOps
    /\ \E k \in FreeKeys, v \in FreeValues : DoInsert(k, v)
    /\ freeOps' = freeOps + 1
    /\ UNCHANGED <<loaded, inode, allocVars>>

TreeRemove ==
    /\ inode.kind = "idle"
    /\ last.kind # "drop"
    /\ freeOps < MaxFreeOps
    /\ \E k \in FreeKeys : DoRemove(k)
    /\ freeOps' = freeOps + 1
    /\ UNCHANGED <<loaded, inode, allocVars>>

\* drop consumes the map: no call follows it
TreeDrop ==
    /\ inode.kind = "idle"
    /\ last.kind # "drop"
    /\ last' = [kind |-> "drop", key |-> 0, value |-> 0, res |-> None]
    /\ pre' = [root |-> root, len |-> len]
    /\ obs' = [obs EXCEPT !.released = MapDrop([root |-> root, len |-> len]),
                           !.entered = <<>>, !.swap = NoSwap,
                           !.rootLen = 0, !.insEntered = <<>>, !.splits = <<>>,
                           !.sibs = <<>>]
    /\ UNCHANGED <<root, len, ref, onlyIns, dir, loaded, freeOps, cert, inode,
                   allocVars>>

\* keys and child pointers written into the node under test: the child
\* right of key k is at ChildPtrOf(k), the leftmost child at ChildPtrOf(0)
NodeKeys == 1..MaxNodeKey
ChildPtrOf(k) == 8 * k

NodeStepFull(kind, n, right, mid, parent, released, search) ==
    /\ inode' = [kind |-> kind, n |-> n, before |-> inode.n,
                 right |-> right, mid |-> mid, parent |-> parent,
                 was |-> [right |-> inode.right, parent |-> inode.parent,
                          before |-> IF kind = "merge" THEN inode.before
                                     ELSE CreateEmpty],
                 released |-> released, search |-> search]
    /\ UNCHANGED <<root, len, last, pre, ref, onlyIns, dir, loaded, freeOps, obs,
                   cert, allocVars>>
NodeStep(kind, n, right, mid) ==
    NodeStepFull(kind, n, right, mid, CreateEmpty, <<>>, NoSearch)

\* the pointers of the two halves of a split node in their parent
LeftNodePtr == ChildPtrOf(MaxNodeKey + 1)
RightNodePtr == ChildPtrOf(MaxNodeKey + 2)

\* the keys held by the first len slots
NodeKeySet(n) == {n.keys[i] : i \in 1..n.len}

\* create(key, lcp, rcp): a node of one key
NodeDoCreate ==
    /\ inode.kind = "absent"
    /\ \E k \in NodeKeys :
           NodeStep("create", Create(k, ChildPtrOf(0), ChildPtrOf(k)),
                    CreateEmpty, Junk)

\* a key and its right child are put at the sorted position, as the tree
\* does after a child split: insert_key, insert_child_ptr, write_len
NodeDoInsert ==
    /\ inode.kind \in {"create", "insert"}
    /\ inode.n.len < CAPACITY
    /\ \E k \in NodeKeys \ NodeKeySet(inode.n) :
           \E idx \in {Cardinality({x \in NodeKeySet(inode.n) : x < k})} :
           NodeStep("insert",
               WriteLen(InsertChildPtr(InsertKey(inode.n, idx, k, inode.n.len),
                                       idx + 1, ChildPtrOf(k), inode.n.len + 1),
                        inode.n.len + 1),
               CreateEmpty, Junk)

\* split_max_len on the full node; the caller then writes both lengths
\* (tests::works_fine, lines 485-488) and, as for a root that was split,
\* creates the parent of the two halves around the key handed back
NodeDoSplit ==
    /\ inode.kind \in {"create", "insert"}
    /\ inode.n.len = CAPACITY
    /\ \E r \in {SplitMaxLen(inode.n)} :
           NodeStepFull("split", WriteLen(r.self, MIN_LEN_AFTER_SPLIT),
                        WriteLen(r.right, MIN_LEN_AFTER_SPLIT), r.mid,
                        Create(r.mid, LeftNodePtr, RightNodePtr), <<>>, NoSearch)

\* merge_min_len on the two halves of a split; the caller then writes the
\* length (tests::works_fine, lines 517-519)
NodeDoMerge ==
    /\ inode.kind = "split"
    /\ \E r \in {MergeMinLen(inode.n, inode.mid, inode.right)} :
           NodeStepFull("merge", WriteLen(r.self, CAPACITY), inode.right,
                        inode.mid, inode.parent, r.destroyed, NoSearch)

\* steal_from_left: the right node takes the last key and child of the left
\* node through the parent; the caller then writes both lengths
NodeDoStealFromLeft ==
    /\ inode.kind \in {"split", "steal_from_left", "steal_from_right"}
    /\ inode.n.len >= 1
    /\ inode.right.len < CAPACITY
    /\ \E r \in {StealFromLeft(inode.right, inode.right.len, inode.n, inode.n.len,
                               inode.parent, 0, NoElement)} :
           NodeStepFull("steal_from_left", WriteLen(r.sibling, inode.n.len - 1),
                        WriteLen(r.self, inode.right.len + 1), inode.mid,
                        r.parent, <<>>, NoSearch)

\* steal_from_right: the left node takes the first key and child of the
\* right node through the parent; the caller then writes both lengths
NodeDoStealFromRight ==
    /\ inode.kind \in {"split", "steal_from_left", "steal_from_right"}
    /\ inode.right.len >= 1
    /\ inode.n.len < CAPACITY
    /\ \E r \in {StealFromRight(inode.n, inode.n.len, inode.right, inode.right.len,
                                inode.parent, 0, NoElement)} :
           NodeStepFull("steal_from_right", WriteLen(r.self, inode.n.len + 1),
                        WriteLen(r.sibling, inode.right.len - 1), inode.mid,
                        r.parent, <<>>, NoSearch)

\* binary_search on a full node, for a key and any number of leading slots
NodeDoSearch ==
    /\ inode.kind = "insert"
    /\ inode.n.len = CAPACITY
    /\ \E k \in NodeKeys, l \in 0..CAPACITY :
           NodeStepFull("search", inode.n, inode.right, inode.mid, inode.parent,
                        <<>>, [k |-> k, len |-> l,
                               res |-> NodeBinarySearch(inode.n, k, l)])

TreeNext ==
    \/ TreeLoad
    \/ TreeInsert
    \/ TreeRemove
    \/ TreeDrop
    \/ NodeDoCreate
    \/ NodeDoInsert
    \/ NodeDoSplit
    \/ NodeDoMerge
    \/ NodeDoStealFromLeft
    \/ NodeDoStealFromRight
    \/ NodeDoSearch

SpecTree == TreeInit /\ [][TreeNext]_vars

\* ------------------------------------------------------------------------
\* Calls on the allocators
\* ------------------------------------------------------------------------
\* sizes the callers ask for
AllocSizes == {16, 1000, 65530}
\* the MemBox allocator is also asked for a size near the lower end of a
\* size class
MbAllocSizes == AllocSizes \cup {600}
\* the byte pattern a caller writes into a block: the bytes of the magic
\* sequence, the one pattern reinit looks for
Marker == MAGIC

NoCall == [kind |-> "init", off |-> NoBlock, size |-> 0, ok |-> TRUE,
           res |-> NoBlock, old_size |-> 0, old_data |-> 0, copied |-> 0]

TreeIdle ==
    /\ root = BTreeNodeNew(TRUE, TRUE)
    /\ len = 0
    /\ last = [kind |-> "new", key |-> 0, value |-> 0, res |-> None]
    /\ pre = [root |-> BTreeNodeNew(TRUE, TRUE), len |-> 0]
    /\ ref = EmptyRef
    /\ onlyIns = TRUE
    /\ dir = "asc"
    /\ loaded = 0
    /\ freeOps = 0
    /\ obs = NoObs
    /\ cert = EmptyCert
    /\ inode = NodeIdle

\* the offsets init is called with: the start of the memory, and an offset
\* that leaves room for a first block of 16 bytes before the end of the page
InitOffsets == {0, PAGE_SIZE_BYTES - SmaSIZE - 2 * MEM_BLOCK_OVERHEAD_BYTES - 16}

AllocInit ==
    /\ \/ impl = "sma" /\ sma \in {SmaInit(o) : o \in InitOffsets}
       \/ impl = "mb" /\ sma = SmaInitState
    /\ mb = MbInitState
    /\ alast = NoCall
    /\ reat = NoReinit
    /\ rt = RtIdle
    /\ plain = TRUE
    /\ apre = IF impl = "sma" THEN sma ELSE MbInitState
    /\ allocOps = 0
    /\ TreeIdle

\* the blocks the callers hold
SmaHeld == {o \in DOMAIN sma.mem : sma.mem[o].allocated}
MbHeld == {o \in DOMAIN mb.mem : mb.mem[o].allocated} \ {MbSelfPtr}

Called(kind, off, size, r, old) ==
    [kind |-> kind, off |-> off, size |-> size, ok |-> r.ok, res |-> r.off,
     old_size |-> old.size, old_data |-> old.data, copied |-> r.copied]

NoOld == [size |-> 0, data |-> 0]

\* the offsets reinit is called with: the offset given to init and the
\* offset of the first block behind the allocator header
ReinitOffsets ==
    IF impl = "sma" THEN {sma.offset, sma.offset + SmaSIZE} ELSE {0, SmaSIZE}

\* The round trip allocate(n); deallocate(the block returned); allocate(n),
\* started in a state whose free space is one free block that is big enough
\* for n: stage counts the calls of the trip made so far, first and second
\* are the offsets the two allocate calls returned, free_off and free_size
\* describe the free block the trip started from.
FreeIn(st) == {o \in DOMAIN st.mem : ~st.mem[o].allocated}

RtAfterAllocate(st, min_size, n, r) ==
    IF rt.stage = 2 /\ n = rt.n
    THEN [rt EXCEPT !.stage = 3, !.second = r.off]
    ELSE IF Cardinality(FreeIn(st)) = 1
    THEN LET f == CHOOSE o \in FreeIn(st) : TRUE IN
         IF st.mem[f].size >= n /\ st.mem[f].size >= min_size
         THEN [stage |-> 1, n |-> n, first |-> r.off, second |-> NoBlock,
               free_off |-> f, free_size |-> st.mem[f].size]
         ELSE RtIdle
    ELSE RtIdle

RtAfterDeallocate(off) ==
    IF rt.stage = 1 /\ off = rt.first THEN [rt EXCEPT !.stage = 2] ELSE RtIdle

\* Every free-list word names a block.  When a call has left a word that
\* names no block, the next calls read_at(..).unwrap_or_else(|| unreachable!())
\* a stale header; the model does not follow them.
SmaLinksValid(st) ==
    /\ \A i \in 1..MAX_SEGREGATION_CLASSES :
           st.classes[i] \in DOMAIN st.mem \cup {EMPTY_WORD}
    /\ \A o \in DOMAIN st.mem :
           /\ st.mem[o].prev_free \in DOMAIN st.mem \cup {EMPTY_WORD}
           /\ st.mem[o].next_free \in DOMAIN st.mem \cup {EMPTY_WORD}

MbLinksValid(st) ==
    /\ \A i \in 1..SEG_CLASS_PTRS_COUNT :
           st.heads[i] \in DOMAIN st.mem \cup {EMPTY_PTR}
    /\ \A o \in DOMAIN st.mem :
           ~st.mem[o].allocated =>
               /\ st.mem[o].prev_free \in DOMAIN st.mem \cup {EMPTY_PTR}
               /\ st.mem[o].next_free \in DOMAIN st.mem \cup {EMPTY_PTR}

\* the last call ended in a panic: no further call is made
Aborted == alast.kind = "double_free" /\ ~alast.ok

\* a call can be made on the allocator under test
SmaReady ==
    /\ impl = "sma"
    /\ allocOps < MaxAllocOps
    /\ ~sma.panicked
    /\ ~Aborted
    /\ SmaLinksValid(sma)

MbReady ==
    /\ impl = "mb"
    /\ allocOps < MaxMbAllocOps
    /\ ~Aborted
    /\ MbLinksValid(mb)

SmaStep(next) ==
    /\ sma' = next
    /\ reat' = NoReinit
    /\ apre' = sma
    /\ allocOps' = allocOps + 1
    /\ UNCHANGED <<impl, mb, treeVars>>

MbStep(next) ==
    /\ mb' = next
    /\ reat' = NoReinit
    /\ apre' = mb
    /\ allocOps' = allocOps + 1
    /\ UNCHANGED <<impl, sma, treeVars>>

SmaDoAllocate ==
    /\ SmaReady
    /\ \E size \in AllocSizes :
           \E r \in {SmaAllocate(sma, size)} :
           /\ SmaStep(r.st)
           /\ rt' = RtAfterAllocate(sma, 0, size, r)
           /\ UNCHANGED plain
           /\ alast' = Called("allocate", NoBlock, size, r @@ [copied |-> 0], NoOld)

SmaDoDeallocate ==
    /\ SmaReady
    /\ \E off \in SmaHeld :
           /\ SmaStep(SmaDeallocate(sma, off))
           /\ rt' = RtAfterDeallocate(off)
           /\ UNCHANGED plain
           /\ alast' = Called("deallocate", off, 0,
                              [ok |-> TRUE, off |-> NoBlock, copied |-> 0], sma.mem[off])

SmaDoReallocate ==
    /\ SmaReady
    /\ \E off \in SmaHeld, size \in AllocSizes :
           \E r \in {SmaReallocate(sma, off, size)} :
           /\ SmaStep(r.st)
           /\ rt' = RtIdle
           /\ plain' = FALSE
           /\ alast' = Called("reallocate", off, size, r @@ [copied |-> 0], sma.mem[off])

\* write_at: the caller writes the marker into the payload
SmaDoWrite ==
    /\ SmaReady
    /\ \E off \in SmaHeld :
           /\ sma.mem[off].data # Marker
           /\ SmaStep([sma EXCEPT !.mem[off].data = Marker])
           /\ rt' = RtIdle
           /\ UNCHANGED plain
           /\ alast' = Called("write", off, 0,
                              [ok |-> TRUE, off |-> off, copied |-> 0], sma.mem[off])

MbDoAllocate ==
    /\ MbReady
    /\ \E size \in MbAllocSizes :
           \E r \in {MbAllocate(mb, size)} :
           /\ MbStep(r.st)
           /\ rt' = RtAfterAllocate(mb, MEM_BOX_MIN_SIZE, size, r)
           /\ UNCHANGED plain
           /\ alast' = Called("allocate", NoBlock, size, r @@ [copied |-> 0], NoOld)

MbDoDeallocate ==
    /\ MbReady
    /\ \E off \in MbHeld :
           /\ MbStep(MbDeallocate(mb, off))
           /\ rt' = RtAfterDeallocate(off)
           /\ UNCHANGED plain
           /\ alast' = Called("deallocate", off, 0,
                              [ok |-> TRUE, off |-> NoBlock, copied |-> 0], mb.mem[off])

MbDoReallocate ==
    /\ MbReady
    /\ \E off \in MbHeld, size \in AllocSizes :
           \E r \in {MbReallocate(mb, off, size)} :
           /\ MbStep(r.st)
           /\ rt' = RtIdle
           /\ plain' = FALSE
           /\ alast' = Called("reallocate", off, size, r, mb.mem[off])

\* _write_bytes: the caller writes the marker into the payload
MbDoWrite ==
    /\ MbReady
    /\ \E off \in MbHeld :
           /\ mb.mem[off].data # Marker
           /\ MbStep([mb EXCEPT !.mem[off].data = Marker])
           /\ rt' = RtIdle
           /\ UNCHANGED plain
           /\ alast' = Called("write", off, 0,
                              [ok |-> TRUE, off |-> off, copied |-> 0], mb.mem[off])

\* deallocate called again on a block that is already free
SmaDoDoubleFree ==
    /\ SmaReady
    /\ \E off \in FreeIn(sma) :
           \E r \in {SmaDeallocateCall(sma, off)} :
           /\ SmaStep(r.st)
           /\ rt' = RtIdle
           /\ UNCHANGED plain
           /\ alast' = Called("double_free", off, 0,
                              [ok |-> ~r.aborted, off |-> NoBlock, copied |-> 0],
                              sma.mem[off])

MbDoDoubleFree ==
    /\ MbReady
    /\ \E off \in FreeIn(mb) :
           \E r \in {MbDeallocateCall(mb, off)} :
           /\ MbStep(r.st)
           /\ rt' = RtIdle
           /\ UNCHANGED plain
           /\ alast' = Called("double_free", off, 0,
                              [ok |-> ~r.aborted, off |-> NoBlock, copied |-> 0],
                              mb.mem[off])

\* reinit builds a second allocator object from what is in memory; the
\* live one and the memory are left as they are
SmaDoReinit ==
    /\ SmaReady
    /\ \E offset \in ReinitOffsets :
           \E r \in {SmaReinit(sma, offset)} :
           /\ reat' = r
           /\ alast' = Called("reinit", offset, 0,
                              [ok |-> r.ok, off |-> NoBlock, copied |-> 0], NoOld)
    /\ rt' = RtIdle
    /\ apre' = sma
    /\ UNCHANGED plain
    /\ allocOps' = allocOps + 1
    /\ UNCHANGED <<impl, sma, mb, treeVars>>

MbDoReinit ==
    /\ MbReady
    /\ \E offset \in ReinitOffsets :
           \E r \in {MbReinit(mb, offset)} :
           /\ reat' = r
           /\ alast' = Called("reinit", offset, 0,
                              [ok |-> r.ok, off |-> NoBlock, copied |-> 0], NoOld)
    /\ rt' = RtIdle
    /\ apre' = mb
    /\ UNCHANGED plain
    /\ allocOps' = allocOps + 1
    /\ UNCHANGED <<impl, sma, mb, treeVars>>

AllocNext ==
    \/ SmaDoReinit
    \/ MbDoReinit
    \/ SmaDoAllocate
    \/ SmaDoDeallocate
    \/ SmaDoReallocate
    \/ SmaDoWrite
    \/ MbDoAllocate
    \/ MbDoDeallocate
    \/ MbDoReallocate
    \/ MbDoWrite
    \/ SmaDoDoubleFree
    \/ MbDoDoubleFree

SpecAlloc == AllocInit /\ [][AllocNext]_vars

\* ------------------------------------------------------------------------
\* Observations on a tree
\* ------------------------------------------------------------------------
StrictlyAscending(s) == \A i \in 1..(Len(s) - 1) : s[i] < s[i + 1]

RECURSIVE KeysOf(_)
KeysOf(node) ==
    {node.keys[i] : i \in 1..Len(node.keys)} \cup
    UNION {KeysOf(node.children[i]) : i \in 1..Len(node.children)}

\* every key under children[i] is below keys[i], every key under children[i+1] above
RECURSIVE SearchOrdered(_)
SearchOrdered(node) ==
    /\ StrictlyAscending(node.keys)
    /\ \A i \in 1..Len(node.children) :
          /\ SearchOrdered(node.children[i])
          /\ i <= Len(node.keys) =>
                \A k \in KeysOf(node.children[i]) : k < node.keys[i]
          /\ (i > 1 /\ i - 1 <= Len(node.keys)) =>
                \A k \in KeysOf(node.children[i]) : k > node.keys[i - 1]

\* key counts of the nodes below the root, and of the root
RECURSIVE NodeLensOk(_, _)
NodeLensOk(node, isTop) ==
    /\ Len(node.keys) <= 2 * B - 1
    /\ isTop \/ Len(node.keys) >= B - 1
    /\ \A i \in 1..Len(node.children) : NodeLensOk(node.children[i], FALSE)

\* depths of the leaves below a node
RECURSIVE LeafDepths(_)
LeafDepths(node) ==
    IF node.children = <<>> THEN {0}
    ELSE UNION {{d + 1 : d \in LeafDepths(node.children[i])} :
                  i \in 1..Len(node.children)}

RECURSIVE ChildCountsOk(_)
ChildCountsOk(node) ==
    /\ IF node.is_leaf THEN node.children = <<>>
       ELSE Len(node.children) = Len(node.keys) + 1
    /\ \A i \in 1..Len(node.children) : ChildCountsOk(node.children[i])

RECURSIVE Height(_)
Height(node) ==
    IF node.children = <<>> THEN 1 ELSE 1 + Height(node.children[1])

\* number of key slots holding key k
RECURSIVE CountKey(_, _)
CountKey(node, k) ==
    Cardinality({i \in 1..Len(node.keys) : node.keys[i] = k}) +
    (IF node.children = <<>> THEN 0
     ELSE LET Sum[i \in 0..Len(node.children)] ==
                IF i = 0 THEN 0 ELSE Sum[i - 1] + CountKey(node.children[i], k)
          IN Sum[Len(node.children)])

\* ------------------------------------------------------------------------
\* Claims about SBTreeMap (checked under SpecTree)
\* ------------------------------------------------------------------------

\* C1: after any sequence of insert calls (repeated keys allowed), len() is the
\* number of distinct keys inserted and get_copy(k) is the value of the most
\* recent insert(k, _), for every inserted key k.
C1_InsertsKeepEveryKey ==
    onlyIns => /\ len = Cardinality(DOMAIN ref)
               /\ \A k \in DOMAIN ref : Get(root, k) = Some(ref[k])

\* C2: remove(k) of a key present in the tree returns Some(its current value);
\* afterwards contains_key(k) is false, len() is one less, and every other key
\* keeps its value.
C2_RemovePresent ==
    (last.kind = "remove" /\ Get(pre.root, last.key).some) =>
        /\ last.res = Get(pre.root, last.key)
        /\ ~ContainsKey(root, last.key)
        /\ len = pre.len - 1
        /\ \A k \in KeysOf(pre.root) \ {last.key} : Get(root, k) = Get(pre.root, k)

\* C3: insert(k, v) of a key already present, wherever it is stored on the
\* descent path, returns Some(previous value), leaves len() unchanged and
\* leaves k stored exactly once with value v.
C3_InsertExisting ==
    (last.kind = "insert" /\ Get(pre.root, last.key).some) =>
        /\ last.res = Get(pre.root, last.key)
        /\ len = pre.len
        /\ CountKey(root, last.key) = 1
        /\ Get(root, last.key) = Some(last.value)

\* C4: remove(k) of a key not present returns None, leaves len() unchanged and
\* leaves the (key, value) pairs retrievable through get_copy unchanged.
C4_RemoveAbsent ==
    (last.kind = "remove" /\ ~Get(pre.root, last.key).some) =>
        /\ last.res = None
        /\ len = pre.len
        /\ \A k \in KeysOf(pre.root) \cup KeysOf(root) \cup FreeKeys :
              Get(root, k) = Get(pre.root, k)

\* C5: after any sequence of insert and remove calls the in-order traversal is
\* strictly ascending (no duplicates), every key under children[i] is below
\* keys[i] and every key under children[i+1] is above keys[i].
C5_SortedOrder == StrictlyAscending(InOrder(root)) /\ SearchOrdered(root)

\* C6: after any sequence of insert and remove calls every non-root node holds
\* between B-1 and 2B-1 keys and no node, root included, holds more than 2B-1.
C6_KeyCounts == NodeLensOk(root, TRUE)

\* C7: after any sequence of insert and remove calls all leaves are at the same
\* depth, every internal node with n keys has exactly n+1 children and every
\* leaf has none.
C7_Shape == Cardinality(LeafDepths(root)) = 1 /\ ChildCountsOk(root)

\* C7 witness: a remove that collapsed the root of a three-level tree, which
\* root splits and child splits had built before
C7_Witness ==
    /\ last.kind = "remove"
    /\ Height(pre.root) = 3
    /\ Height(root) = 2
    /\ Len(root.children) = Len(root.keys) + 1
\* ------------------------------------------------------------------------
\* Observations on the allocator under test
\* ------------------------------------------------------------------------
CurMem == IF impl = "mb" THEN mb.mem ELSE sma.mem

\* the size allocate has to provide for a request
Requested(size) ==
    IF impl = "mb" /\ size < MEM_BOX_MIN_SIZE THEN MEM_BOX_MIN_SIZE ELSE size

\* the offset of the right physical neighbour of a MemContext block
SmaRightOf(o) == o + sma.mem[o].size + 2 * MEM_BLOCK_OVERHEAD_BYTES

\* C8: in both allocators a successful allocate(size), the growing path
\* included, returns a block that is marked allocated and whose payload is
\* at least the requested size (at least max(size, MEM_BOX_MIN_SIZE) in the
\* MemBox allocator).
C8_AllocateGivesSize ==
    (alast.kind = "allocate" /\ alast.ok) =>
        /\ alast.res \in DOMAIN CurMem
        /\ CurMem[alast.res].allocated
        /\ CurMem[alast.res].size >= Requested(alast.size)

\* C9: in both allocators, after a successful reallocate of a block of
\* payload size s to a larger size, the first s bytes of the returned block
\* are the payload the block had before the call (here: the marker written
\* into it), whether it grew in place or was relocated.
C9_ReallocateKeepsPayload ==
    (alast.kind = "reallocate" /\ alast.ok /\ alast.size > alast.old_size
        /\ alast.old_data = Marker) =>
        /\ alast.res \in DOMAIN CurMem
        /\ CurMem[alast.res].data = alast.old_data

\* C10: MemContext allocator: after init and any sequence of allocate,
\* deallocate and reallocate calls no two physically adjacent blocks are
\* both free.
C10_NoAdjacentFree ==
    impl = "sma" =>
        \A o \in DOMAIN sma.mem :
            (~sma.mem[o].allocated /\ SmaRightOf(o) \in DOMAIN sma.mem)
                => sma.mem[SmaRightOf(o)].allocated


\* the offset of the right physical neighbour of a MemBox
MbRightOf(o) == o + mb.mem[o].size + 2 * MEM_BOX_META_SIZE

\* number of boxes of a state of the MemBox allocator
MbBoxCount(st) == Cardinality(DOMAIN st.mem)

RECURSIVE FreeListWalk(_, _, _, _)
FreeListWalk(m, cur, empty, fuel) ==
    IF cur = empty \/ fuel = 0
    THEN <<>>
    ELSE IF cur \notin DOMAIN m
    THEN <<cur>>
    ELSE <<cur>> \o FreeListWalk(m, m[cur].next_free, empty, fuel - 1)

\* the free list of class id (counted from 0) of either allocator
SmaListOf(st, id) ==
    FreeListWalk(st.mem, st.classes[id + 1], EMPTY_WORD, Cardinality(DOMAIN st.mem) + 1)
MbListOf(st, id) ==
    FreeListWalk(st.mem, st.heads[id + 1], EMPTY_PTR, Cardinality(DOMAIN st.mem) + 1)

\* number of positions of the list that hold offset o
Occurrences(list, o) == Cardinality({i \in 1..Len(list) : list[i] = o})

\* every entry of the list is a free block, the head has no predecessor
\* (nohead is the word a head keeps in prev_free) and each entry's prev_free
\* names the entry before it
ListLinked(m, list, nohead) ==
    \A i \in 1..Len(list) :
        /\ list[i] \in DOMAIN m
        /\ ~m[list[i]].allocated
        /\ m[list[i]].prev_free = (IF i = 1 THEN nohead ELSE list[i - 1])

SmaFreeListsOk(st) ==
    /\ \A id \in 0..(MAX_SEGREGATION_CLASSES - 1) :
           ListLinked(st.mem, SmaListOf(st, id), EMPTY_WORD)
    /\ \A o \in DOMAIN st.mem : ~st.mem[o].allocated =>
           \A id \in 0..(MAX_SEGREGATION_CLASSES - 1) :
               Occurrences(SmaListOf(st, id), o) =
                   (IF id = FindSegClassIdx(st.mem[o].size) THEN 1 ELSE 0)

MbFreeListsOk(st) ==
    /\ \A id \in 0..(SEG_CLASS_PTRS_COUNT - 1) :
           ListLinked(st.mem, MbListOf(st, id), MbSelfPtr)
    /\ \A o \in DOMAIN st.mem : ~st.mem[o].allocated =>
           \A id \in 0..(SEG_CLASS_PTRS_COUNT - 1) :
               Occurrences(MbListOf(st, id), o) =
                   (IF id = GetSegClassId(st.mem[o].size) THEN 1 ELSE 0)

\* C12: in both allocators every free block appears exactly once in the
\* free list of the class computed from its current size and in no other
\* list, every block reachable from a class head is free, and the prev and
\* next links of the lists agree.
C12_FreeListsWellFormed ==
    /\ impl = "sma" => SmaFreeListsOk(sma)
    /\ impl = "mb" => MbFreeListsOk(mb)


\* the state of the allocator under test
CurState == IF impl = "mb" THEN mb ELSE sma

\* C13: in both allocators, when allocate fails with OutOfMemory because
\* the growth is refused, the heap size, every block header, every free-list
\* link and every class head are what they were before the call.
C13_FailedAllocateChangesNothing ==
    (alast.kind = "allocate" /\ ~alast.ok) => CurState = apre

\* C13 witness: an allocate was refused while the heap held free blocks on
\* the lists of several classes
C13_Witness ==
    /\ alast.kind = "allocate"
    /\ ~alast.ok
    /\ CurState = apre
    /\ Cardinality({o \in DOMAIN CurMem : ~CurMem[o].allocated}) >= 2


\* the class head table of a state of the allocator under test
HeadsOf(st) == IF impl = "mb" THEN st.heads ELSE st.classes

\* the free blocks of a state, with their headers and links
FreeBlocksOf(st) ==
    {<<o, st.mem[o].size, st.mem[o].prev_free, st.mem[o].next_free>> :
        o \in {x \in DOMAIN st.mem : ~st.mem[x].allocated}}

\* C14: in both allocators, when reallocate fails with OutOfMemory the block
\* passed in is still allocated at the same offset with the same size and
\* payload, and the free lists are what they were before the call.
C14_FailedReallocateKeepsBlock ==
    (alast.kind = "reallocate" /\ ~alast.ok) =>
        /\ alast.off \in DOMAIN CurMem
        /\ CurMem[alast.off].allocated
        /\ CurMem[alast.off].size = alast.old_size
        /\ CurMem[alast.off].data = alast.old_data
        /\ HeadsOf(CurState) = HeadsOf(apre)
        /\ FreeBlocksOf(CurState) = FreeBlocksOf(apre)


\* C15: in both allocators reallocate(block, new_size) with new_size not
\* above the current payload size of the block returns the same offset and
\* changes no header, no free list and no payload byte.
C15_ShrinkingReallocateIsNoOp ==
    (alast.kind = "reallocate" /\ alast.size <= alast.old_size) =>
        /\ alast.ok
        /\ alast.res = alast.off
        /\ CurMem = apre.mem
        /\ HeadsOf(CurState) = HeadsOf(apre)


\* the right physical neighbour, before the last call, of the block the
\* call was given
PreRight == alast.off + alast.old_size + 2 * MEM_BLOCK_OVERHEAD_BYTES

\* before the last call the right neighbour of the block was free
PreRightFree == PreRight \in DOMAIN apre.mem /\ ~apre.mem[PreRight].allocated

\* the payload of the block merged with its right neighbour
PreMergedSize ==
    alast.old_size + apre.mem[PreRight].size + 2 * MEM_BLOCK_OVERHEAD_BYTES

\* a reallocate of the MemContext allocator that had to enlarge the block
SmaGrowingReallocate ==
    impl = "sma" /\ alast.kind = "reallocate" /\ alast.old_size < alast.size

\* C16: MemContext allocator: reallocate(offset, wanted) of a block smaller
\* than wanted returns the same offset whenever the right neighbour is free
\* and the merged payload is at least wanted (the excess is split off and
\* stays free), and a successful call returns a different offset when the
\* right neighbour is allocated or the merged size is still too small.
C16_ReallocateInPlace ==
    SmaGrowingReallocate =>
        IF PreRightFree /\ PreMergedSize >= alast.size
        THEN /\ alast.ok
             /\ alast.res = alast.off
             /\ sma.mem[alast.off].allocated
             /\ sma.mem[alast.off].size >= alast.size
             /\ PreMergedSize - alast.size >= MIN_MEM_BLOCK_SIZE_BYTES =>
                    /\ sma.mem[alast.off].size = alast.size
                    /\ SmaRightOf(alast.off) \in DOMAIN sma.mem
                    /\ ~sma.mem[SmaRightOf(alast.off)].allocated
        ELSE alast.ok => alast.res # alast.off


\* C17: in both allocators, after init at an offset followed by any
\* sequence of allocate, deallocate and reallocate calls, reinit at the same
\* offset succeeds and recovers a class head table identical to the one of
\* the live allocator; the head blocks, read from the same memory, have the
\* same size and allocated flag.
C17_ReinitRecoversHeads ==
    (alast.kind = "reinit" /\ alast.off = (IF impl = "sma" THEN sma.offset ELSE 0)) =>
        /\ reat.ok
        /\ reat.classes = HeadsOf(CurState)
        /\ CurState = apre

\* C17 witness: a reinit at the offset of init, after calls that grew the
\* heap and left free blocks on the lists of two classes at least
C17_Witness ==
    /\ alast.kind = "reinit"
    /\ alast.off = 0
    /\ reat.ok
    /\ reat.classes = HeadsOf(CurState)
    /\ CurState.pages > 1
    /\ Cardinality({i \in DOMAIN reat.classes :
                       reat.classes[i] \in DOMAIN CurMem}) >= 2

\* the magic sequence reinit finds at the offset it was given
MagicFound ==
    IF impl = "mb"
    THEN IF MbFromPtr(mb, alast.off) = NoBlock THEN 0 ELSE MbMagicAt(mb, alast.off)
    ELSE ContextRead(sma, alast.off)

\* the box at the offset is not a box an allocator header can live in
MbBadHeaderBox ==
    \/ MbFromPtr(mb, alast.off) = NoBlock
    \/ ~mb.mem[alast.off].allocated
    \/ mb.mem[alast.off].size # MbSIZE

\* C18: in both allocators reinit at an offset where the magic sequence is
\* not found fails (InvalidMagicSequence, None) and returns no allocator
\* object; the MemBox one also fails when the box at the offset is not
\* marked allocated or its size is not the allocator header size.
C18_ReinitRejectsBadHeader ==
    alast.kind = "reinit" =>
        /\ MagicFound # MAGIC => (~alast.ok /\ reat = NoReinit)
        /\ (impl = "mb" /\ MbBadHeaderBox) => (~alast.ok /\ reat = NoReinit)

\* C18 witness: reinit of the MemBox allocator was refused at a box that is
\* allocated and starts with the magic sequence, but has the wrong size
C18_Witness ==
    /\ impl = "mb"
    /\ alast.kind = "reinit"
    /\ alast.off # MbSelfPtr
    /\ MbFromPtr(mb, alast.off) # NoBlock
    /\ mb.mem[alast.off].allocated
    /\ MagicFound = MAGIC
    /\ ~alast.ok
    /\ reat = NoReinit


SmaUsedClasses ==
    {id \in 0..(MAX_SEGREGATION_CLASSES - 1) : sma.classes[id + 1] # EMPTY_WORD}

\* C20: MemContext allocator: after init and any sequence of allocate calls,
\* growing ones included, once every returned block has been deallocated,
\* in any order, exactly one class head is non-empty and its list holds
\* exactly one free block, which covers the whole region behind the
\* allocator header.
C20_AllFreedIsOneBlock ==
    (impl = "sma" /\ plain /\ SmaHeld = {}) =>
        /\ Cardinality(SmaUsedClasses) = 1
        /\ \A id \in SmaUsedClasses : SmaListOf(sma, id) = <<sma.offset + SmaSIZE>>
        /\ DOMAIN sma.mem = {sma.offset + SmaSIZE}
        /\ ~sma.mem[sma.offset + SmaSIZE].allocated
        /\ SmaRightOf(sma.offset + SmaSIZE) = sma.pages * PAGE_SIZE_BYTES

\* ------------------------------------------------------------------------
\* the sum of the payload sizes of a set of boxes
RECURSIVE MbSizeSum(_, _)
MbSizeSum(st, boxes) ==
    IF boxes = {} THEN 0
    ELSE LET o == CHOOSE x \in boxes : TRUE
         IN st.mem[o].size + MbSizeSum(st, boxes \ {o})

\* C21: MemBox allocator: after any sequence of allocate, reallocate and
\* deallocate calls, get_allocated_size() equals the sum of the payload
\* sizes of the boxes handed out and not yet deallocated; it is 0 once
\* every such box has been deallocated.
C21_AllocatedSizeIsSumOfHeld ==
    impl = "mb" =>
        /\ mb.allocated_size = MbSizeSum(mb, MbHeld)
        /\ (MbHeld = {} => mb.allocated_size = 0)

\* C21 witness: after allocate, reallocate and deallocate calls, one of them
\* growing the memory, two boxes of different sizes are held; and the state
\* in which the last held box has been given back
C21_Witness ==
    /\ impl = "mb"
    /\ ~plain
    /\ mb.pages > 1
    /\ alast.kind = "deallocate"
    /\ Cardinality(MbHeld) = 2
    /\ Cardinality({mb.mem[o].size : o \in MbHeld}) = 2
    /\ mb.allocated_size > 0

\* ------------------------------------------------------------------------
\* C23: both allocators: deallocate called on a block whose header is not
\* marked allocated aborts before any header, free-list link or class head
\* is modified: the call ends in the panic and memory, class heads and
\* counters are those of before the call.
C23_DoubleFreeAbortsUnchanged ==
    alast.kind = "double_free" =>
        /\ ~alast.ok
        /\ CurState = apre

\* C23 witness: a block that was handed out and deallocated, with other
\* blocks still held, is deallocated a second time
C23_Witness ==
    /\ alast.kind = "double_free"
    /\ ~alast.ok
    /\ alast.off \in DOMAIN CurMem
    /\ ~CurMem[alast.off].allocated
    /\ (IF impl = "mb" THEN MbHeld ELSE SmaHeld) # {}
    /\ allocOps >= 4

\* ------------------------------------------------------------------------
\* the nodes of a tree, each named by its path of child indices from the root
RECURSIVE NodePaths(_, _)
NodePaths(node, path) ==
    {path} \cup UNION {NodePaths(VecAt(node.children, i), Append(path, i)) :
                          i \in 0..(Len(node.children) - 1)}

\* C22: after inserts and removes that leave the map empty, followed by drop,
\* the storage of every node of the tree, the root included, has been
\* released exactly once.
C22_DropReleasesEveryNode ==
    (last.kind = "drop" /\ obs.used /\ len = 0) =>
        \A p \in NodePaths(root, <<>>) : Occurrences(obs.released, p) = 1

\* ------------------------------------------------------------------------
\* number of positions of a sequence that hold x
CountIn(s, x) == Cardinality({i \in 1..Len(s) : s[i] = x})
SeqSet(s) == {s[i] : i \in 1..Len(s)}

\* C26: when remove(k) finds k in an internal node and a neighbouring child
\* has at least B keys, the key written into k's slot is the largest key of
\* the whole left child subtree (predecessor case) or the smallest key of the
\* whole right child subtree (successor case), and exactly that key is removed
\* from that subtree.
C26_ReplacementIsNeighbourKey ==
    (last.kind = "remove" /\ obs.swap.case # "none") =>
        /\ obs.swap.case = "predecessor" =>
               \A x \in SeqSet(obs.swap.sub) : x <= obs.swap.k
        /\ obs.swap.case = "successor" =>
               \A x \in SeqSet(obs.swap.sub) : x >= obs.swap.k
        /\ \A x \in SeqSet(obs.swap.sub) \cup SeqSet(obs.swap.rest) :
               CountIn(obs.swap.rest, x) =
                   CountIn(obs.swap.sub, x) - (IF x = obs.swap.k THEN 1 ELSE 0)

\* C27: during remove, every non-root node that the deletion descends into,
\* the nodes entered while extracting a predecessor or successor included,
\* holds at least B keys at the moment it is entered.
C27_EnteredNodesHaveBKeys ==
    last.kind = "remove" =>
        \A i \in 1..Len(obs.entered) : obs.entered[i] >= B

\* ------------------------------------------------------------------------
\* C28: during insert no node holding 2B-1 keys is entered: a full root is
\* split before descent and a full child is split before it is entered, and
\* the child then entered is the one of the two split halves whose key range
\* contains the inserted key (below the promoted median for the left half,
\* above it for the right half).
C28_InsertNeverEntersFullNode ==
    last.kind = "insert" =>
        /\ obs.rootLen < CAPACITY
        /\ \A i \in 1..Len(obs.insEntered) :
               LET e == obs.insEntered[i] IN
               /\ e.len < CAPACITY
               /\ e.split => IF e.right THEN last.key > e.median
                             ELSE last.key < e.median

\* ------------------------------------------------------------------------
\* the in-order sequence of (key, value) pairs
RECURSIVE InOrderPairs(_)
RECURSIVE InOrderPairsFrom(_, _)
InOrderPairsFrom(node, i) ==
    IF i < Len(node.keys)
    THEN (IF i < Len(node.children) THEN InOrderPairs(VecAt(node.children, i))
          ELSE <<>>)
         \o <<<<VecAt(node.keys, i), VecAt(node.values, i)>>>>
         \o InOrderPairsFrom(node, i + 1)
    ELSE IF i < Len(node.children) THEN InOrderPairs(VecAt(node.children, i))
    ELSE <<>>
InOrderPairs(node) == InOrderPairsFrom(node, 0)

\* C29 as stated: remove(k) for a key k that is not in the tree leaves the
\* node structure exactly as it was: every node keeps the same keys and
\* children and the tree keeps the same height.
C29_RemoveAbsentKeepsNodes ==
    (last.kind = "remove" /\ CountKey(pre.root, last.key) = 0) =>
        root = pre.root

\* C29 amended: remove(k) for a key k that is not in the tree returns None and
\* leaves len() and the in-order sequence of (key, value) pairs as they were;
\* the nodes on the descent path may have been rebalanced by a borrow or a
\* merge and a merge below the root may have lowered the height.
C29_RemoveAbsentKeepsPairs ==
    (last.kind = "remove" /\ CountKey(pre.root, last.key) = 0) =>
        /\ last.res = None
        /\ len = pre.len
        /\ InOrderPairs(root) = InOrderPairs(pre.root)

\* C29 witness: a remove of an absent key whose descent rebalanced a node of
\* a tree with two levels below the root
C29_Witness ==
    /\ last.kind = "remove"
    /\ CountKey(pre.root, last.key) = 0
    /\ last.res = None
    /\ root # pre.root
    /\ Height(pre.root) >= 3

\* ------------------------------------------------------------------------
\* one split_child call did what a split of a full node is to do: s is
\* [node, idx, after], the parent before, the index of the full child and
\* the parent after
SplitChildOk(s) ==
    LET child == VecAt(s.node.children, s.idx)
        orig == VecAt(s.after.children, s.idx)
        sib == VecAt(s.after.children, s.idx + 1)
    IN /\ Len(child.keys) = CAPACITY
       /\ orig.keys = SubSeq(child.keys, 1, B - 1)
       /\ orig.values = SubSeq(child.values, 1, B - 1)
       /\ orig.children = IF child.is_leaf THEN <<>>
                          ELSE SubSeq(child.children, 1, B)
       /\ orig.is_leaf = child.is_leaf
       /\ sib.keys = SubSeq(child.keys, B + 1, 2 * B - 1)
       /\ sib.values = SubSeq(child.values, B + 1, 2 * B - 1)
       /\ sib.children = IF child.is_leaf THEN <<>>
                         ELSE SubSeq(child.children, B + 1, 2 * B)
       /\ sib.is_leaf = child.is_leaf
       /\ Len(s.after.keys) = Len(s.node.keys) + 1
       /\ VecAt(s.after.keys, s.idx) = VecAt(child.keys, B - 1)
       /\ VecAt(s.after.values, s.idx) = VecAt(child.values, B - 1)
       /\ VecRemove(s.after.keys, s.idx) = s.node.keys
       /\ VecRemove(VecRemove(s.after.children, s.idx), s.idx)
              = VecRemove(s.node.children, s.idx)
       /\ InOrder(s.after) = InOrder(s.node)

\* the split_max_len call on the node under test did the same on the slots
\* of the flat node: inode.before is the full node, inode.n the original
\* after the call, inode.right the new sibling, inode.mid the key returned
\* for the parent
SplitMaxLenOk ==
    /\ inode.before.len = CAPACITY
    /\ inode.n.len = B - 1
    /\ \A i \in 0..(B - 2) : ReadKey(inode.n, i) = ReadKey(inode.before, i)
    /\ \A i \in 0..(B - 1) : ReadChildPtr(inode.n, i) = ReadChildPtr(inode.before, i)
    /\ inode.right.len = B - 1
    /\ \A i \in 0..(B - 2) : ReadKey(inode.right, i) = ReadKey(inode.before, B + i)
    /\ \A i \in 0..(B - 1) :
           ReadChildPtr(inode.right, i) = ReadChildPtr(inode.before, B + i)
    /\ inode.mid = ReadKey(inode.before, B - 1)
    /\ \A i \in 0..(B - 2) : /\ ReadKey(inode.n, i) < inode.mid
                             /\ inode.mid < ReadKey(inode.right, i)

\* C30: splitting a full node of 2B-1 keys (split_child of the map and
\* split_max_len of the flat node): the original keeps its lowest B-1 keys
\* and, if internal, its first B children; the new sibling receives the
\* upper B-1 keys and the last B children in the same order; the key at
\* index B-1 becomes the separator placed in the parent between the original
\* and the sibling; the in-order key sequence is unchanged.
C30_SplitHalvesFullNode ==
    /\ last.kind = "insert" =>
           \A i \in 1..Len(obs.splits) : SplitChildOk(obs.splits[i])
    /\ inode.kind = "split" => SplitMaxLenOk

\* C30 witness: an insert that split a full internal node holding 2B
\* children
C30_Witness ==
    /\ last.kind = "insert"
    /\ \E i \in 1..Len(obs.splits) :
           LET s == obs.splits[i] IN
           /\ ~VecAt(s.node.children, s.idx).is_leaf
           /\ Len(VecAt(s.node.children, s.idx).children) = 2 * B
           /\ SplitChildOk(s)

\* ------------------------------------------------------------------------
\* C25
\* ------------------------------------------------------------------------
\* the fields c have the shape of the tree, and the stored hash of every node
\* is the hash of its content and of the stored hashes of its children
RECURSIVE CertConsistent(_, _)
CertConsistent(node, c) ==
    /\ Len(c.sub) = Len(node.children)
    /\ ReadRootHash(c) =
           NodeHash(node.keys, node.values,
                    [i \in 1..Len(c.sub) |-> ReadChildRootHash(c, i - 1)])
    /\ \A i \in 0..(Len(node.children) - 1) :
           CertConsistent(VecAt(node.children, i), VecAt(c.sub, i))

\* the hash of a tree computed from its keys and values alone
RECURSIVE TreeHash(_)
TreeHash(node) ==
    Bind([i \in 1..Len(node.children) |-> TreeHash(VecAt(node.children, i - 1))],
         LAMBDA hs : NodeHash(node.keys, node.values, hs))

RECURSIVE WitnessItems(_)
RECURSIVE WitnessItemsFrom(_, _)
WitnessItemsFrom(w, i) ==
    (IF i < Len(w.subs)
     THEN IF w.subs[i + 1].pruned THEN <<0>> ELSE WitnessItems(w.subs[i + 1].node)
     ELSE <<>>)
    \o (IF i < Len(w.keys)
        THEN <<VecAt(w.keys, i)>> \o WitnessItemsFrom(w, i + 1)
        ELSE <<>>)
WitnessItems(w) == WitnessItemsFrom(w, 0)

\* the value a verifier finds for key in a witness
RECURSIVE WitnessGet(_, _)
WitnessGet(w, key) ==
    LET bs == BinarySearch(w.keys, key) IN
    IF bs.found THEN Some(VecAt(w.values, bs.idx))
    ELSE IF bs.idx < Len(w.subs) /\ ~w.subs[bs.idx + 1].pruned
    THEN WitnessGet(w.subs[bs.idx + 1].node, key)
    ELSE None

\* the items show two neighbouring keys around key, or a key and the end of
\* the tree, with nothing pruned in between
GapAt(items, key, i) ==
    /\ i = 0 \/ (items[i] # 0 /\ items[i] < key)
    /\ i = Len(items) \/ (items[i + 1] # 0 /\ items[i + 1] > key)
ProvesGap(items, key) == \E i \in 0..Len(items) : GapAt(items, key, i)

\* the keys of the nodes the search for key passes
RECURSIVE SearchPathKeys(_, _)
SearchPathKeys(node, key) ==
    LET bs == BinarySearch(node.keys, key) IN
    SeqSet(node.keys) \cup
    (IF ~bs.found /\ bs.idx < Len(node.children)
     THEN SearchPathKeys(VecAt(node.children, bs.idx), key)
     ELSE {})

\* the keys asked about after a call: the key of the call, which is present
\* after an insert and absent after a remove, and one more key
ProbeKeys == {last.key, 87}

\* C24 for one key, its witness w and the items of w; ks are the keys of
\* the tree
WitnessSound(key, w, items, ks) ==
    /\ Reconstruct(w) = ReadRootHash(cert)
    /\ SeqSet(items) \ {0} = SearchPathKeys(root, key)
    /\ IF ContainsKey(root, key)
       THEN WitnessGet(w, key) = Get(root, key)
       ELSE /\ WitnessGet(w, key) = None
            /\ \E i \in 0..Len(items) :
                  /\ GapAt(items, key, i)
                  /\ \A x \in ks :
                        /\ x < key => i > 0 /\ x <= items[i]
                        /\ x > key => i < Len(items) /\ x >= items[i + 1]

\* C24 for the witness the map gives for key
WitnessOfKeySound(key, ks) ==
    \E w \in {Witness(root, cert, key)} :
        \E items \in {WitnessItems(w)} : WitnessSound(key, w, items, ks)

C37_LenCountsKeySlots ==
    last.kind \in {"new", "insert", "remove"} =>
        /\ MapLen([root |-> root, len |-> len]) = Len(InOrder(root))
        /\ MapIsEmpty([root |-> root, len |-> len]) <=> root.keys = <<>>

\* C37 witness: a remove took a key out of a tree of three levels after an
\* insert had replaced the value of a key the tree held
C37_Witness ==
    /\ last.kind = "remove"
    /\ last.res.some
    /\ Height(pre.root) >= 3
    /\ freeOps = 2
    /\ MapLen([root |-> root, len |-> len]) = loaded - 1
    /\ MapLen([root |-> root, len |-> len]) = Len(InOrder(root))

\* ------------------------------------------------------------------------
\* C33
\* ------------------------------------------------------------------------
\* C33: split_max_len on a node with CAPACITY keys followed by merge_min_len
\* of the key and the node it handed back leaves the node with its original
\* CAPACITY keys and CAPACITY + 1 child pointers in their original order,
\* and the right node, and only it, destroyed.
C33_SplitThenMergeRestores ==
    inode.kind = "merge" =>
        /\ inode.was.before.len = CAPACITY
        /\ inode.n.len = CAPACITY
        /\ \A i \in 0..(CAPACITY - 1) :
               ReadKey(inode.n, i) = ReadKey(inode.was.before, i)
        /\ \A i \in 0..CAPACITY :
               ReadChildPtr(inode.n, i) = ReadChildPtr(inode.was.before, i)
        /\ inode.released = <<inode.right>>

\* C33 witness: a node of CAPACITY distinct keys and CAPACITY + 1 distinct
\* child pointers was split and merged again
C33_Witness ==
    /\ inode.kind = "merge"
    /\ inode.n.len = CAPACITY
    /\ Cardinality({ReadKey(inode.n, i) : i \in 0..(CAPACITY - 1)}) = CAPACITY
    /\ Cardinality({ReadChildPtr(inode.n, i) : i \in 0..CAPACITY}) = CAPACITY + 1
    /\ inode.n.keys = inode.was.before.keys
    /\ inode.right.len = MIN_LEN_AFTER_SPLIT

\* ------------------------------------------------------------------------
\* C32
\* ------------------------------------------------------------------------
\* what the first l key slots of n say about key k: Ok(i) when slot i < l
\* holds k, else Err(j) with j the number of those slots holding a smaller key
SearchExpected(n, k, l) ==
    IF \E i \in 0..(l - 1) : ReadKey(n, i) = k
    THEN [found |-> TRUE, idx |-> CHOOSE i \in 0..(l - 1) : ReadKey(n, i) = k]
    ELSE [found |-> FALSE,
          idx |-> Cardinality({i \in 0..(l - 1) : ReadKey(n, i) < k})]

\* C32: for every len in 0..CAPACITY and a node whose first len key slots are
\* strictly ascending, binary_search(k, len) returns Ok(i) with i < len when
\* slot i holds k and otherwise Err(j) with j the number of the first len
\* keys below k, whatever the slots from len on hold; for len = 0 it returns
\* Err(0).
C32_BinarySearchExact ==
    inode.kind = "search" =>
        inode.search.res = SearchExpected(inode.n, inode.search.k, inode.search.len)

\* ------------------------------------------------------------------------
\* C31
\* ------------------------------------------------------------------------
\* one call c of delete_sibling moved exactly one key, and one child between
\* internal nodes, from the donor children[j] through the separator to the
\* receiver children[i]
SiblingBorrowExact(c) ==
    LET recv0 == VecAt(c.node.children, c.i)
        recv1 == VecAt(c.after.children, c.i)
        don0 == VecAt(c.node.children, c.j)
        don1 == VecAt(c.after.children, c.j)
        sep == IF c.j > c.i THEN c.i ELSE c.j
        leftOf(p) == VecAt(p.children, sep)
        rightOf(p) == VecAt(p.children, sep + 1)
    IN /\ Len(c.after.keys) = Len(c.node.keys)
       /\ Len(c.after.children) = Len(c.node.children)
       /\ c.after.keys = VecReplace(c.node.keys, sep,
              IF c.j > c.i THEN VecAt(don0.keys, 0) ELSE VecLast(don0.keys))
       /\ \A x \in 0..(Len(c.node.children) - 1) :
              x \notin {c.i, c.j} =>
                  VecAt(c.after.children, x) = VecAt(c.node.children, x)
       /\ recv1.keys = IF c.j > c.i
                       THEN recv0.keys \o <<VecAt(c.node.keys, sep)>>
                       ELSE <<VecAt(c.node.keys, sep)>> \o recv0.keys
       /\ don1.keys = IF c.j > c.i THEN Tail(don0.keys) ELSE VecPop(don0.keys)
       /\ IF recv0.children = <<>>
          THEN recv1.children = <<>> /\ don1.children = don0.children
          ELSE /\ recv1.children =
                      IF c.j > c.i
                      THEN recv0.children \o <<VecAt(don0.children, 0)>>
                      ELSE <<VecLast(don0.children)>> \o recv0.children
               /\ don1.children = IF c.j > c.i THEN Tail(don0.children)
                                  ELSE VecPop(don0.children)
       /\ leftOf(c.after).keys \o <<VecAt(c.after.keys, sep)>> \o rightOf(c.after).keys
              = leftOf(c.node).keys \o <<VecAt(c.node.keys, sep)>>
                    \o rightOf(c.node).keys
       /\ leftOf(c.after).children \o rightOf(c.after).children
              = leftOf(c.node).children \o rightOf(c.node).children
       /\ InOrderPairs(c.after) = InOrderPairs(c.node)

\* children and keys of the first n.len slots of a node, in order
NodeInOrder(n) ==
    [x \in 1..(2 * n.len + 1) |->
        IF x % 2 = 1 THEN ReadChildPtr(n, (x - 1) \div 2)
        ELSE ReadKey(n, x \div 2 - 1)]

\* steal_from_left / steal_from_right moved exactly one key and one child
\* from the donor (d0 before, d1 after) through key 0 of the parent (p0, p1)
\* to the receiver (r0, r1); fromLeft tells the side of the donor
StealExact(r0, r1, d0, d1, p0, p1, fromLeft) ==
    /\ r1.len = r0.len + 1
    /\ d1.len = d0.len - 1
    /\ p1.len = p0.len
    /\ ReadKey(p1, 0) = IF fromLeft THEN ReadKey(d0, d0.len - 1) ELSE ReadKey(d0, 0)
    /\ \A x \in 0..p0.len : ReadChildPtr(p1, x) = ReadChildPtr(p0, x)
    /\ IF fromLeft
       THEN /\ ReadKey(r1, 0) = ReadKey(p0, 0)
            /\ ReadChildPtr(r1, 0) = ReadChildPtr(d0, d0.len)
            /\ \A x \in 0..(r0.len - 1) : ReadKey(r1, x + 1) = ReadKey(r0, x)
            /\ \A x \in 0..r0.len : ReadChildPtr(r1, x + 1) = ReadChildPtr(r0, x)
            /\ \A x \in 0..(d1.len - 1) : ReadKey(d1, x) = ReadKey(d0, x)
            /\ \A x \in 0..d1.len : ReadChildPtr(d1, x) = ReadChildPtr(d0, x)
            /\ NodeInOrder(d1) \o <<ReadKey(p1, 0)>> \o NodeInOrder(r1)
                   = NodeInOrder(d0) \o <<ReadKey(p0, 0)>> \o NodeInOrder(r0)
       ELSE /\ ReadKey(r1, r0.len) = ReadKey(p0, 0)
            /\ ReadChildPtr(r1, r0.len + 1) = ReadChildPtr(d0, 0)
            /\ \A x \in 0..(r0.len - 1) : ReadKey(r1, x) = ReadKey(r0, x)
            /\ \A x \in 0..r0.len : ReadChildPtr(r1, x) = ReadChildPtr(r0, x)
            /\ \A x \in 0..(d1.len - 1) : ReadKey(d1, x) = ReadKey(d0, x + 1)
            /\ \A x \in 0..d1.len : ReadChildPtr(d1, x) = ReadChildPtr(d0, x + 1)
            /\ NodeInOrder(r1) \o <<ReadKey(p1, 0)>> \o NodeInOrder(d1)
                   = NodeInOrder(r0) \o <<ReadKey(p0, 0)>> \o NodeInOrder(d0)

\* C31: a borrow (delete_sibling of the map; steal_from_left and
\* steal_from_right of the node without an extra element) gives the receiving
\* child exactly the old separator and, between internal nodes, one child,
\* takes from the donor exactly its nearest key and child, leaves the key
\* count of the parent as it was with the separator replaced by the donor's
\* key, and leaves the in-order sequence of keys and children across the
\* three nodes unchanged.
C31_BorrowMovesOneKey ==
    /\ \A x \in 1..Len(obs.sibs) : SiblingBorrowExact(obs.sibs[x])
    /\ inode.kind = "steal_from_left" =>
           StealExact(inode.was.right, inode.right, inode.before, inode.n,
                      inode.was.parent, inode.parent, TRUE)
    /\ inode.kind = "steal_from_right" =>
           StealExact(inode.before, inode.n, inode.was.right, inode.right,
                      inode.was.parent, inode.parent, FALSE)

\* C31 witness: a remove borrowed between two internal nodes from the right
\* sibling, which gave its first key to the parent and its first child, a
\* subtree of keys, to the receiver
C31_Witness ==
    /\ last.kind = "remove"
    /\ Len(obs.sibs) = 1
    /\ \E c \in {obs.sibs[1]} :
           /\ c.j = c.i + 1
           /\ VecAt(c.node.children, c.i).children # <<>>
           /\ Len(VecAt(c.after.children, c.i).children)
                  = Len(VecAt(c.node.children, c.i).children) + 1
           /\ VecLast(VecAt(c.after.children, c.i).children)
                  = VecAt(VecAt(c.node.children, c.j).children, 0)
           /\ VecAt(c.after.keys, c.i) # VecAt(c.node.keys, c.i)

\* ------------------------------------------------------------------------
\* C34
\* ------------------------------------------------------------------------
\* the free list of class id of a state of the allocator under test, the
\* class allocate starts its search in, and the number of classes
ClassListOf(st, id) == IF impl = "mb" THEN MbListOf(st, id) ELSE SmaListOf(st, id)
IdealClassOf(size) ==
    IF impl = "mb" THEN GetSegClassId(Requested(size)) ELSE FindSegClassIdx(size)
ClassCount == IF impl = "mb" THEN SEG_CLASS_PTRS_COUNT ELSE MAX_SEGREGATION_CLASSES

\* the classes at or above the ideal class of size whose free list in st
\* holds a block of payload at least size
FittingClasses(st, size) ==
    {id \in IdealClassOf(size)..(ClassCount - 1) :
        \E o \in DOMAIN st.mem :
            /\ Occurrences(ClassListOf(st, id), o) > 0
            /\ st.mem[o].size >= Requested(size)}

\* C34: in both allocators the block a successful allocate(size) takes from
\* the free lists comes from the lowest-indexed class, at or above the ideal
\* class of size, whose list holds a block of payload at least size, and the
\* lists of all larger classes are left as they were.
C34_LowestFittingClass ==
    (alast.kind = "allocate" /\ alast.ok /\ FittingClasses(apre, alast.size) # {}) =>
        \E c \in FittingClasses(apre, alast.size) :
            /\ \A d \in FittingClasses(apre, alast.size) : c <= d
            /\ Occurrences(ClassListOf(apre, c), alast.res) = 1
            /\ \A d \in (c + 1)..(ClassCount - 1) :
                   ClassListOf(CurState, d) = ClassListOf(apre, d)

\* ------------------------------------------------------------------------
\* C35
\* ------------------------------------------------------------------------
\* the bytes a block takes next to its payload, and the class of the free
\* list a free block of a payload size belongs to
OverheadOf == IF impl = "mb" THEN 2 * MEM_BOX_META_SIZE ELSE 2 * MEM_BLOCK_OVERHEAD_BYTES
ClassOfSize(size) == IF impl = "mb" THEN GetSegClassId(size) ELSE FindSegClassIdx(size)
\* the bytes of the smallest block: a minimal payload and its overhead
MinBlockBytes ==
    IF impl = "mb" THEN MEM_BOX_MIN_SIZE + 2 * MEM_BOX_META_SIZE
    ELSE MIN_MEM_BLOCK_SIZE_BYTES

\* the payload of the candidate the last allocate worked on: the free block
\* it took from a list, or the block made of the pages it grew the heap by
CandidatePayload ==
    IF alast.res \in DOMAIN apre.mem
    THEN apre.mem[alast.res].size
    ELSE (CurState.pages - apre.pages) * PAGE_SIZE_BYTES - OverheadOf

\* C35: in both allocators, when the candidate of a successful allocate is
\* larger than the request by at least the bytes of a minimal block, the
\* block returned is the front piece with the payload asked for and the
\* remainder behind it is a free block in the free list of its size class.
C35_SplitsLargeCandidate ==
    (alast.kind = "allocate" /\ alast.ok
        /\ CandidatePayload - Requested(alast.size) >= MinBlockBytes) =>
        \E rest \in {alast.res + Requested(alast.size) + OverheadOf} :
            /\ CurMem[alast.res].size = Requested(alast.size)
            /\ rest \in DOMAIN CurMem
            /\ ~CurMem[rest].allocated
            /\ CurMem[rest].size = CandidatePayload - Requested(alast.size) - OverheadOf
            /\ Occurrences(ClassListOf(CurState, ClassOfSize(CurMem[rest].size)), rest) = 1

\* ------------------------------------------------------------------------
\* C36
\* ------------------------------------------------------------------------
\* where the first block of the allocator under test starts: right behind
\* the allocator's header (MemContext) or the allocator's own box (MemBox)
FirstBlockOffset ==
    IF impl = "mb" THEN MbSelfPtr + MbSIZE + 2 * MEM_BOX_META_SIZE
    ELSE sma.offset + SmaSIZE

\* the blocks of the allocator under test that the callers and the free
\* lists share
ManagedBlocks == IF impl = "mb" THEN DOMAIN mb.mem \ {MbSelfPtr} ELSE DOMAIN sma.mem

\* the offset right behind block o
EndOf(o) == o + CurMem[o].size + OverheadOf

\* C36: in both allocators, after init and any sequence of calls, the blocks
\* tile the managed region: a block starts right behind the allocator
\* header, every block ends where another block starts or at
\* size_pages() * PAGE_SIZE_BYTES, and every block but the first starts
\* where another one ends.
C36_BlocksTileRegion ==
    /\ FirstBlockOffset \in ManagedBlocks
    /\ \A o \in ManagedBlocks :
           /\ EndOf(o) \in ManagedBlocks \/ EndOf(o) = CurState.pages * PAGE_SIZE_BYTES
           /\ o = FirstBlockOffset \/ \E p \in ManagedBlocks : EndOf(p) = o
    /\ \E o \in ManagedBlocks : EndOf(o) = CurState.pages * PAGE_SIZE_BYTES

\* ------------------------------------------------------------------------
\* C38
\* ------------------------------------------------------------------------
\* the MemContext allocator as the object r returned by reinit sees it: the
\* memory of the live allocator with the fields of r
ThroughReinit(r) == [sma EXCEPT !.offset = r.offset, !.classes = r.classes]

\* C38: MemContext allocator: the allocator returned by reinit(o), o the
\* offset init was called with, has o as its offset field, and a class head
\* written through it by set_segregation_class is in the table a subsequent
\* reinit(o) reads.
C38_ReinitInterchangeable ==
    (impl = "sma" /\ alast.kind = "reinit" /\ alast.off = sma.offset /\ reat.ok) =>
        /\ reat.offset = alast.off
        /\ \A idx \in 0..(MAX_SEGREGATION_CLASSES - 1), ptr \in DOMAIN sma.mem :
               \E s1 \in {SetSegregationClass(ThroughReinit(reat), idx, ptr)} :
                   SmaReinit(s1, alast.off).classes = s1.classes

\* ------------------------------------------------------------------------
\* C39
\* ------------------------------------------------------------------------
\* C39: MemBox allocator: after any sequence of allocate, deallocate and
\* reallocate calls get_free_size() is the sum of the payload sizes of the
\* boxes marked free, and get_free_size() + get_allocated_size() changes only
\* in a call that grows the heap.
C39_FreeSizeIsSumOfFree ==
    impl = "mb" =>
        /\ mb.free_size = MbSizeSum(mb, FreeIn(mb))
        /\ (alast.kind # "init" /\ mb.pages = apre.pages) =>
               mb.free_size + mb.allocated_size = apre.free_size + apre.allocated_size

\* ------------------------------------------------------------------------
\* C40
\* ------------------------------------------------------------------------
\* C40: MemBox allocator: for every new_size, one below the current payload
\* size of the box included, a successful reallocate writes no more bytes
\* into the box it returns than the payload of that box holds.
C40_CopyFitsReturnedBox ==
    (impl = "mb" /\ alast.kind = "reallocate" /\ alast.ok) =>
        alast.copied <= CurMem[alast.res].size



====
